---- MODULE Spec2Model ----
(***************************************************************************)
(* Terrain streaming of vibe_golf (src/src/plugins/terrain.rs), native     *)
(* (non-wasm32) build: the three Update systems update_terrain_chunks,     *)
(* finalize_chunk_tasks and apply_terrain_config_changes, the background   *)
(* build tasks of the AsyncComputeTaskPool, and the two resources the      *)
(* performance menu and the physics write from outside (TerrainConfig and  *)
(* the Ball transform).                                                    *)
(*                                                                         *)
(* Lengths are whole metres; the f32 arithmetic of the streaming systems   *)
(* is exact on every value used here.  The height sampler is modelled with *)
(* exact fractions, and the f32 rounding of its extent test separately for *)
(* the positions next to the edge of the heightmap, where it decides the   *)
(* outcome.  An Entity is modelled by <<coord, k>>, k being                *)
(* the number of live entities of that coordinate when it was spawned:     *)
(* entity ids are opaque in the source and only compared for equality.     *)
(* Commands (spawn, despawn, insert, insert_resource) are applied at the   *)
(* sync point that follows the system issuing them, which the .after()     *)
(* edges of TerrainPlugin::build place before the next system runs; each   *)
(* action below therefore includes the effect of its own commands.         *)
(***************************************************************************)
EXTENDS Integers, Sequences, FiniteSets, TLC

VARIABLES
    cfg,          \* Res<TerrainConfig>
    cfgChanged,   \* cfg.is_changed() as apply_terrain_config_changes will see it
    sampler,      \* Res<TerrainSampler>: its cfg snapshot
    ball,         \* translation of the single Ball entity
    world,        \* ECS entities carrying ChunkBuildTask or TerrainChunk
    loaded,       \* LoadedChunks.map : coord -> entity
    in_progress,  \* InProgressChunks.set
    pc,           \* the system of the Update schedule that runs next
    cycle,        \* number of Update schedule runs begun
    center,       \* center_chunk evaluated by the last update_terrain_chunks
    eligible,     \* desired coordinates neither loaded nor in progress when it began
    submitted,    \* coordinates it passed to spawn_chunk_task
    evicted,      \* coordinates it removed from LoadedChunks
    finalized,    \* coordinates merged by the last finalize_chunk_tasks
    invalidated,  \* the last apply_terrain_config_changes cleared the terrain
    changes,      \* number of writes to TerrainConfig so far
    global_mat,   \* Res<TerrainGlobalMaterial>: handle present, min_h, max_h
    probe,        \* arguments and result of the last pure function applied
    app           \* resources of an App built around CoreSimPlugin

vars == <<cfg, cfgChanged, sampler, ball, world, loaded, in_progress, pc, cycle,
          center, eligible, submitted, evicted, finalized, invalidated, changes,
          global_mat, probe, app>>

----------------------------------------------------------------------------
(* Bounds of the model *)

\* Update schedule runs explored by the streaming specification
MaxCycles == 3
\* the ball visits chunks 0..MaxBallChunk along x
MaxBallChunk == 1
\* writes to TerrainConfig explored by the streaming specification
MaxConfigChanges == 1
\* Update schedule runs explored with the default configuration
LodCycles == 11
\* Update schedule runs explored by the radius-2 scenario
ScenarioCycles == 3

----------------------------------------------------------------------------
(* TerrainConfig *)

DefaultConfig ==
    [ amplitude            |-> 1,
      chunk_size           |-> 160,
      resolution           |-> 96,
      view_radius_chunks   |-> 6,
      max_spawn_per_frame  |-> 16,
      lod_mid_distance     |-> 512,
      lod_far_distance     |-> 800,
      lod_mid_resolution   |-> 48,
      lod_far_resolution   |-> 24,
      heightmap_world_size |-> 2000,
      heightmap_max_height |-> 200,
      heightmap_path       |-> "assets/heightmaps/level1.png" ]

\* the fields apply_terrain_config_changes compares with the sampler's snapshot
InvalidatingFields ==
    {"amplitude", "view_radius_chunks", "heightmap_world_size",
     "heightmap_path", "heightmap_max_height"}

Abs(n) == IF n < 0 THEN -n ELSE n

----------------------------------------------------------------------------
(* update_terrain_chunks: observer chunk, desired list, LOD *)

\* (center_pos / chunk_size).floor() on x and z
center_chunk(pos, c) == <<pos.x \div c.chunk_size, pos.z \div c.chunk_size>>

\* loops whose ranges leave out the upper end, -radius..radius
desired_unsorted_exclusive(cc, radius) ==
    LET w == 2 * radius
    IN  [i \in 1..(w * w) |->
            <<cc[1] + ((i - 1) % w) - radius, cc[2] + ((i - 1) \div w) - radius>>]

\* the nested dz / dx loops pushing (2*radius+1)^2 coordinates, dz outermost
\* (none for a negative radius: -radius..=radius is then empty)
desired_unsorted(cc, radius) ==
    LET w == IF radius < 0 THEN 0 ELSE 2 * radius + 1
    IN  [i \in 1..(w * w) |->
            <<cc[1] + ((i - 1) % w) - radius, cc[2] + ((i - 1) \div w) - radius>>]

\* key of desired.sort_by_key
sort_key(coord, cc) ==
    LET dx == coord[1] - cc[1]
        dz == coord[2] - cc[2]
    IN  dx * dx + dz * dz

RECURSIVE StableByKey(_, _, _, _)
\* sort_by_key is a stable sort: keys ascending, equal keys in their pushed order
StableByKey(seq, cc, k, maxKey) ==
    IF k > maxKey THEN <<>>
    ELSE SelectSeq(seq, LAMBDA c : sort_key(c, cc) = k)
         \o StableByKey(seq, cc, k + 1, maxKey)

desired_in_pushed_order(cc, radius) == desired_unsorted(cc, radius)

desired_sorted(cc, radius) ==
    StableByKey(desired_unsorted(cc, radius), cc, 0, 2 * radius * radius)

\* squared value of chunk_world_center.xy().distance(center_pos.xy()):
\* Vec3::xy() takes the x and y components, and chunk_world_center.y is 0.0
dist_sq(coord, pos, c) ==
    LET cx == coord[1] * c.chunk_size + c.chunk_size \div 2
    IN  (cx - pos.x) * (cx - pos.x) + (0 - pos.y) * (0 - pos.y)

lod_select_threshold_inclusive(d_sq, c) ==
    IF d_sq >= c.lod_far_distance * c.lod_far_distance THEN c.lod_far_resolution
    ELSE IF d_sq >= c.lod_mid_distance * c.lod_mid_distance THEN c.lod_mid_resolution
    ELSE c.resolution

lod_select_tiers_reversed(d_sq, c) ==
    IF d_sq > c.lod_far_distance * c.lod_far_distance THEN c.resolution
    ELSE IF d_sq > c.lod_mid_distance * c.lod_mid_distance THEN c.lod_mid_resolution
    ELSE c.lod_far_resolution

\* the if / else if / else choosing chosen_res from dist, on squared distances
lod_select(d_sq, c) ==
    IF d_sq > c.lod_far_distance * c.lod_far_distance THEN c.lod_far_resolution
    ELSE IF d_sq > c.lod_mid_distance * c.lod_mid_distance THEN c.lod_mid_resolution
    ELSE c.resolution

chosen_res(coord, pos, c) == lod_select(dist_sq(coord, pos, c), c)

create_collider(res, c) == res # c.lod_far_resolution

already_registered_pending_only(coord, ld, ip) == coord \in ip

already_registered_loaded_only(coord, ld, ip) == coord \in ld

\* loaded.map.contains_key(coord) || in_progress.set.contains(coord)
already_registered(coord, ld, ip) == coord \in ld \/ coord \in ip

budget_exhausted_off_by_one(spawned_this_frame, budget) == spawned_this_frame > budget

\* spawned_this_frame >= cfg.max_spawn_per_frame
budget_exhausted(spawned_this_frame, budget) == spawned_this_frame >= budget

RECURSIVE spawn_loop(_, _, _, _, _, _)
\* the for loop over desired from index i on: continue on every registered
\* coordinate (up to j, the first that is not), break on an exhausted budget,
\* otherwise submit; yields the submitted coordinates in order
spawn_loop(seq, i, spawned_this_frame, ld, ip, budget) ==
    LET rest == {k \in i..Len(seq) : ~already_registered(seq[k], ld, ip)}
    IN  IF rest = {} THEN <<>>
        ELSE LET j == CHOOSE k \in rest : \A m \in rest : k <= m
             IN  IF budget_exhausted(spawned_this_frame, budget) THEN <<>>
                 ELSE <<seq[j]>> \o spawn_loop(seq, j + 1, spawned_this_frame + 1,
                                               ld, ip \cup {seq[j]}, budget)

Range(f) == {f[i] : i \in DOMAIN f}

to_remove_inclusive(ld, cc, radius) ==
    {c \in ld : Abs(c[1] - cc[1]) >= radius \/ Abs(c[2] - cc[2]) >= radius}

to_remove_one_late(ld, cc, radius) ==
    {c \in ld : Abs(c[1] - cc[1]) > radius + 1 \/ Abs(c[2] - cc[2]) > radius + 1}

\* the "Despawn out-of-range chunks" pass
to_remove(ld, cc, radius) ==
    {c \in ld : Abs(c[1] - cc[1]) > radius \/ Abs(c[2] - cc[2]) > radius}

----------------------------------------------------------------------------
(* Heightmap and TerrainSampler.  A heightmap is [width, height, data_r], data_r  *)
(* indexed from 0 as the Vec<u8> is.  World positions are whole numbers; pixel *)
(* coordinates and heights are exact fractions [n, d] with d > 0.              *)

Clamp(v, lo, hi) == IF v < lo THEN lo ELSE IF v > hi THEN hi ELSE v

\* the closure idx of sample_red_linear
idx(hm, x, z) == z * hm.width + x

\* true when indexing data_r at (x, z) would be out of bounds
index_panics(hm, x, z) == idx(hm, x, z) \notin DOMAIN hm.data_r

\* a sampler that takes the sample at (floor u, floor v) without interpolating
sample_red_linear_nearest(hm, un, ud, vn, vd) ==
    IF un < 0 \/ vn < 0 \/ un > (hm.width - 1) * ud \/ vn > (hm.height - 1) * vd
    THEN [n |-> 0, d |-> 1, panic |-> FALSE]
    ELSE [n |-> hm.data_r[idx(hm, un \div ud, vn \div vd)] * ud * vd,
          d |-> ud * vd * 255, panic |-> FALSE]

\* Heightmap::sample_red_linear at u = un / ud, v = vn / vd
sample_red_linear(hm, un, ud, vn, vd) ==
    IF un < 0 \/ vn < 0 \/ un > (hm.width - 1) * ud \/ vn > (hm.height - 1) * vd
    THEN [n |-> 0, d |-> 1, panic |-> FALSE]
    ELSE LET x0 == un \div ud
             z0 == vn \div vd
             x1 == Clamp(x0 + 1, 0, hm.width - 1)
             z1 == Clamp(z0 + 1, 0, hm.height - 1)
             tx == un % ud
             tz == vn % vd
             bad == \E px \in {x0, x1} : \E pz \in {z0, z1} : index_panics(hm, px, pz)
         IN  IF bad THEN [n |-> 0, d |-> 1, panic |-> TRUE]
             ELSE LET r00 == hm.data_r[idx(hm, x0, z0)]
                      r10 == hm.data_r[idx(hm, x1, z0)]
                      r01 == hm.data_r[idx(hm, x0, z1)]
                      r11 == hm.data_r[idx(hm, x1, z1)]
                      a   == r00 * ud + (r10 - r00) * tx
                      b   == r01 * ud + (r11 - r01) * tx
                  IN  [n |-> a * vd + (b - a) * tz, d |-> ud * vd * 255, panic |-> FALSE]

\* TerrainSampler::sample_heightmap: nx = x / world_size + 0.5 is
\* (2 x + world_size) / (2 world_size), likewise nz
sample_heightmap(x, z, c, hm) ==
    LET ws == c.heightmap_world_size
    IN  IF 2 * x + ws < 0 \/ 2 * x + ws > 2 * ws \/ 2 * z + ws < 0 \/ 2 * z + ws > 2 * ws
        THEN [n |-> 0, d |-> 1, panic |-> FALSE]
        ELSE LET h == sample_red_linear(hm, (2 * x + ws) * (hm.width - 1), 2 * ws,
                                            (2 * z + ws) * (hm.height - 1), 2 * ws)
             IN  [h EXCEPT !.n = h.n * c.heightmap_max_height * c.amplitude]

\* TerrainSampler::height
height(x, z, c, hm) == sample_heightmap(x, z, c, hm)

\* n / d rounded to the nearest whole number, ties to the even one, as every f32
\* operation rounds its exact result
RoundHalfEven(n, d) ==
    LET q == n \div d
        r == n % d
    IN  IF 2 * r < d THEN q
        ELSE IF 2 * r > d THEN q + 1
        ELSE IF q % 2 = 0 THEN q ELSE q + 1

\* 1.0 in units of 2^-23, the spacing of the f32 values of [1, 2)
f32_one == 8388608

\* nx = (x / world_size) + 0.5 in f32 arithmetic, in units of 2^-23, for the k-th
\* f32 value x above world_size / 2.  With world_size / 2 in [512, 1024) the
\* values of x are 2^-14 apart, so x = X * 2^-14; x / world_size lies in
\* [0.5, 1), where f32 values are 2^-24 apart, and is X * 2^10 / world_size of
\* these (X * 64 over world_size / 16, to stay within 32 bits), rounded; adding
\* 0.5 (2^23 of them) gives a value of [1, 2), rounded to a multiple of 2^-23
nx_f32_beyond_edge(k, c) ==
    LET X == (c.heightmap_world_size \div 2) * 16384 + k
        q == RoundHalfEven(X * 64, c.heightmap_world_size \div 16)
    IN  RoundHalfEven(q + f32_one, 2)

\* sample_heightmap at x and z the kx-th and kz-th f32 value above
\* world_size / 2: nx and nz are at least 1.0, and where neither is above 1.0
\* both are 1.0 and (u, v) is the last pixel of the last row
sample_heightmap_beyond_edge(kx, kz, c, hm) ==
    IF nx_f32_beyond_edge(kx, c) > f32_one \/ nx_f32_beyond_edge(kz, c) > f32_one
    THEN [n |-> 0, d |-> 1, panic |-> FALSE]
    ELSE LET h == sample_red_linear(hm, hm.width - 1, 1, hm.height - 1, 1)
         IN  [h EXCEPT !.n = h.n * c.heightmap_max_height * c.amplitude]

----------------------------------------------------------------------------
(* Heights of a build *)

\* the raster of this model, given by the least and the greatest red value that
\* the samples of one chunk meet: terraces of 51 rising and falling with x and z
raster_red_range(coord) ==
    LET t == (coord[1] + coord[2] + 1) % 3
    IN  [lo |-> 51 * t, hi |-> 51 * (t + 1 + (coord[1] % 2))]

\* (min_h, max_h) folded over the (res + 1)^2 heights of a build: samples beyond
\* the extent of the heightmap are 0, the others red / 255 * max_height * amplitude
chunk_height_range(coord, c) ==
    LET x0   == coord[1] * c.chunk_size
        z0   == coord[2] * c.chunk_size
        half == c.heightmap_world_size \div 2
        all_inside  == /\ -half <= x0 /\ x0 + c.chunk_size <= half
                       /\ -half <= z0 /\ z0 + c.chunk_size <= half
        all_outside == \/ x0 > half \/ x0 + c.chunk_size < -half
                       \/ z0 > half \/ z0 + c.chunk_size < -half
        r    == raster_red_range(coord)
        h(red) == (red * c.heightmap_max_height * c.amplitude) \div 255
    IN  [ min_h |-> IF all_inside THEN h(r.lo) ELSE 0,
          max_h |-> IF all_outside THEN 0 ELSE h(r.hi) ]

----------------------------------------------------------------------------
(* Entities *)

RECURSIVE FreshIndex(_, _, _)
FreshIndex(w, coord, k) ==
    IF <<coord, k>> \in DOMAIN w THEN FreshIndex(w, coord, k + 1) ELSE k

\* an entity without RigidBody, Collider and Friction components
NoCollider == [shape |-> "none"]

\* commands.spawn(ChunkBuildTask { coord, task }) with the task's captured inputs;
\* step = size / res is kept as the fraction n / d
spawn_chunk_task(w, coord, smp, res, collider) ==
    LET e == <<coord, FreshIndex(w, coord, 0)>>
    IN  [x \in DOMAIN w \cup {e} |->
            IF x = e
            THEN [ kind |-> "ChunkBuildTask", coord |-> coord, res |-> res,
                   create_collider |-> collider, amplitude |-> smp.amplitude,
                   min_h |-> chunk_height_range(coord, smp).min_h,
                   max_h |-> chunk_height_range(coord, smp).max_h,
                   step |-> [n |-> smp.chunk_size, d |-> res],
                   collider |-> NoCollider,
                   done |-> FALSE, panicked |-> FALSE ]
            ELSE w[x]]

\* the spawn_chunk_task calls of one run: the coordinates are distinct, so each
\* call adds one entity beside those of the others
spawn_all(w, coords, pos, smp) ==
    [x \in DOMAIN w \cup {<<c, FreshIndex(w, c, 0)>> : c \in Range(coords)} |->
        IF x \in DOMAIN w THEN w[x]
        ELSE LET res == chosen_res(x[1], pos, smp)
             IN  spawn_chunk_task(w, x[1], smp, res, create_collider(res, smp))[x]]

Despawn(w, es) == [x \in DOMAIN w \ es |-> w[x]]

Tasks  == {e \in DOMAIN world : world[e].kind = "ChunkBuildTask"}
Chunks == {e \in DOMAIN world : world[e].kind = "TerrainChunk"}

----------------------------------------------------------------------------
(* The systems *)

\* one run of the system
update_terrain_chunks ==
    /\ pc = "update_terrain_chunks"
    /\ LET c      == sampler
           cc     == center_chunk(ball, c)
           radius == c.view_radius_chunks
           seq    == desired_sorted(cc, radius)
           subs   == spawn_loop(seq, 1, 0, DOMAIN loaded, in_progress,
                                c.max_spawn_per_frame)
           gone   == to_remove(DOMAIN loaded, cc, radius)
       IN  /\ center' = cc
           /\ eligible' = {x \in Range(seq) : x \notin DOMAIN loaded /\ x \notin in_progress}
           /\ submitted' = Range(subs)
           /\ evicted' = gone
           /\ in_progress' = in_progress \cup Range(subs)
           /\ loaded' = [x \in DOMAIN loaded \ gone |-> loaded[x]]
           /\ world' = Despawn(spawn_all(world, subs, ball, c), {loaded[x] : x \in gone})
    /\ pc' = "finalize_chunk_tasks"
    /\ UNCHANGED <<cfg, cfgChanged, sampler, ball, finalized, invalidated, changes,
                   global_mat, probe, app>>

\* the system as the first of the cap runs of the Update schedule that are explored
UpdateTerrainChunks(cap) ==
    /\ cycle < cap
    /\ update_terrain_chunks
    /\ cycle' = cycle + 1

\* the system in a schedule that runs for ever, its runs not counted
UpdateTerrainChunksForever ==
    /\ update_terrain_chunks
    /\ UNCHANGED cycle

\* The task pool finishes one build; poll_once will then yield its result.  A
\* build may finish at any moment after its submission, but only the poll of
\* finalize_chunk_tasks observes it, so the step is taken right before that poll.
BuildCompletesOf(e) ==
        /\ pc = "finalize_chunk_tasks"
        /\ e \in Tasks
        /\ ~world[e].done /\ ~world[e].panicked
        /\ world' = [world EXCEPT ![e].done = TRUE]
        /\ UNCHANGED <<cfg, cfgChanged, sampler, ball, loaded, in_progress, pc, cycle,
                       center, eligible, submitted, evicted, finalized, invalidated, changes,
                       global_mat, probe, app>>

BuildCompletes == \E e \in Tasks : BuildCompletesOf(e)

poll_once_blocking(e) == TRUE

\* block_on(poll_once(&mut build.task)) yields Some(result) for a finished build
\* and None, at once, for an unfinished one
poll_once(e) == world[e].done

\* a heightfield with one row and one column per cell instead of per vertex
heightfield_collider_per_cell(res, step) ==
    [shape |-> "heightfield", nrows |-> res, ncols |-> res,
     scale |-> <<step, 1, step>>, body |-> "Fixed", friction |-> 1]

\* (RigidBody::Fixed, Collider::heightfield(heights, res + 1, res + 1,
\* Vec3::new(step, 1.0, step)), Friction { coefficient: 1.0, .. })
heightfield_collider(res, step) ==
    [shape |-> "heightfield", nrows |-> res + 1, ncols |-> res + 1,
     scale |-> <<step, 1, step>>, body |-> "Fixed", friction |-> 1]

\* the collider components inserted for a result, if any
collider_of(t) ==
    IF t.create_collider THEN heightfield_collider(t.res, t.step) ELSE NoCollider

finalize_entity_keeps_task(t) == t

finalize_entity_selects_again(t) ==
    [t EXCEPT !.kind = "TerrainChunk", !.res = chosen_res(t.coord, ball, sampler),
              !.collider = collider_of(t)]

\* a finalization that takes the height range from the shared material, which
\* holds what the builds finalized so far have merged into it
finalize_entity_shared_range(t) ==
    [t EXCEPT !.kind = "TerrainChunk", !.collider = collider_of(t),
              !.min_h = IF global_mat.min_h < @ THEN global_mat.min_h ELSE @,
              !.max_h = IF global_mat.max_h > @ THEN global_mat.max_h ELSE @]

\* components of a finalized entity: ChunkBuildTask removed, TerrainChunk inserted
\* with the res (and the collider, if any) of the result
finalize_entity(t) == [t EXCEPT !.kind = "TerrainChunk", !.collider = collider_of(t)]

\* #[derive(Default)] of TerrainGlobalMaterial
DefaultGlobalMaterial == [handle |-> FALSE, min_h |-> 0, max_h |-> 0]

\* f32::MAX and f32::MIN, beyond every height of the model
f32_MAX == 2147483647
f32_MIN == -2147483647

Min2(a, b) == IF a < b THEN a ELSE b
Max2(a, b) == IF a > b THEN a ELSE b

merge_height_range_without_sentinel(gm, r) ==
    [handle |-> TRUE, min_h |-> Min2(gm.min_h, r.min_h), max_h |-> Max2(gm.max_h, r.max_h)]

\* the update of global_mat for one result, and the creation of the handle
merge_height_range(gm, r) ==
    LET g == IF gm.min_h = 0 /\ ~gm.handle
             THEN [gm EXCEPT !.min_h = f32_MAX, !.max_h = f32_MIN]
             ELSE gm
    IN  [handle |-> TRUE, min_h |-> Min2(g.min_h, r.min_h), max_h |-> Max2(g.max_h, r.max_h)]

\* the loop over q_tasks applying the update to every result: f32::min and
\* f32::max are associative and commutative, and the handle exists from the first
\* result on, so the loop ends where one update with the least min_h and the
\* greatest max_h of the results ends, in whichever order the query yields them
merge_results(gm, ready) ==
    IF ready = {} THEN gm
    ELSE LET lo == CHOOSE e \in ready : \A x \in ready : world[e].min_h <= world[x].min_h
             hi == CHOOSE e \in ready : \A x \in ready : world[e].max_h >= world[x].max_h
         IN  merge_height_range(gm, [min_h |-> world[lo].min_h, max_h |-> world[hi].max_h])

insert_loaded_within_radius(ld, ready) ==
    LET near == {e \in ready :
                    to_remove({world[e].coord}, center_chunk(ball, sampler),
                              sampler.view_radius_chunks) = {}}
    IN  [x \in DOMAIN ld \cup {world[e].coord : e \in near} |->
            IF \E e \in near : world[e].coord = x
            THEN CHOOSE e \in near : world[e].coord = x
            ELSE ld[x]]

\* loaded.map.insert(coord, e) for every polled task that yielded a result
insert_loaded(ld, ready) ==
    [x \in DOMAIN ld \cup {world[e].coord : e \in ready} |->
        IF \E e \in ready : world[e].coord = x
        THEN CHOOSE e \in ready : world[e].coord = x
        ELSE ld[x]]

remove_in_progress_forgotten(ip, ready) == ip

\* in_progress.set.remove(&coord) for the same tasks
remove_in_progress(ip, ready) == ip \ {world[e].coord : e \in ready}

FinalizeChunkTasks ==
    /\ pc = "finalize_chunk_tasks"
    /\ LET ready == {e \in Tasks : poll_once(e)}
       IN  /\ world' = [e \in DOMAIN world |->
                           IF e \in ready THEN finalize_entity(world[e]) ELSE world[e]]
           /\ global_mat' = merge_results(global_mat, ready)
           /\ loaded' = insert_loaded(loaded, ready)
           /\ in_progress' = remove_in_progress(in_progress, ready)
           /\ finalized' = {world[e].coord : e \in ready}
    /\ pc' = "apply_terrain_config_changes"
    /\ UNCHANGED <<cfg, cfgChanged, sampler, ball, cycle, center, eligible,
                   submitted, evicted, invalidated, changes, probe, app>>

fundamental_changed_any_field(c, s) == c # s

\* the condition of the clearing branch: one of the five compared fields differs
fundamental_changed(c, s) == \E f \in InvalidatingFields : c[f] # s[f]

\* loaded.map.clear()
clear_loaded(ld) == [x \in {} |-> x]

clear_in_progress_too(ip) == {}

\* the clearing branch does not touch InProgressChunks
clear_in_progress(ip) == ip

ApplyTerrainConfigChanges ==
    /\ pc = "apply_terrain_config_changes"
    /\ IF cfgChanged /\ fundamental_changed(cfg, sampler)
       THEN /\ world' = Despawn(world, Chunks)
            /\ loaded' = clear_loaded(loaded)
            /\ in_progress' = clear_in_progress(in_progress)
            /\ sampler' = cfg
            /\ invalidated' = TRUE
       ELSE /\ invalidated' = FALSE
            /\ UNCHANGED <<world, loaded, in_progress, sampler>>
    /\ cfgChanged' = FALSE
    /\ pc' = "update_terrain_chunks"
    /\ UNCHANGED <<cfg, ball, cycle, center, eligible, submitted, evicted, finalized,
                   changes, global_mat, probe, app>>

----------------------------------------------------------------------------
(* The environment *)

\* amplitudes and radii the configuration is moved between
Amplitudes == {1, 2}
Radii == {0, 1}
Budgets == {1, 2}

\* param_adjust_buttons, or any other system holding ResMut<TerrainConfig>: it is
\* not ordered against the terrain systems, and only apply_terrain_config_changes
\* reads the resource, so the write is taken right before that system runs
ConfigChange(cap) ==
    /\ pc = "apply_terrain_config_changes"
    /\ changes < cap
    /\ changes' = changes + 1
    /\ \E f \in {"amplitude", "view_radius_chunks", "max_spawn_per_frame"} :
       \E v \in (CASE f = "amplitude" -> Amplitudes
                   [] f = "view_radius_chunks" -> Radii
                   [] OTHER -> Budgets) :
          /\ cfg[f] # v
          /\ cfg' = [cfg EXCEPT ![f] = v]
    /\ cfgChanged' = TRUE
    /\ UNCHANGED <<sampler, ball, world, loaded, in_progress, pc, cycle,
                   center, eligible, submitted, evicted, finalized, invalidated,
                   global_mat, probe, app>>

BallPositions ==
    {[x |-> 160 * i + 10, y |-> 0, z |-> 10] : i \in 0..MaxBallChunk}

\* the physics moves the ball between two runs of the Update schedule
MoveBall ==
    /\ pc = "update_terrain_chunks"
    /\ \E p \in BallPositions : ball # p /\ ball' = p
    /\ UNCHANGED <<cfg, cfgChanged, sampler, world, loaded, in_progress, pc, cycle,
                   center, eligible, submitted, evicted, finalized, invalidated, changes,
                   global_mat, probe, app>>

----------------------------------------------------------------------------
(* Specifications *)

\* no pure function has been applied
NoProbe == [f |-> "none"]

\* no App around CoreSimPlugin is being built
NoApp == [f |-> "none"]

\* the resources as TerrainPlugin::build inserts them, before the first run of
\* the schedule; pr holds the arguments of the pure function to apply, if any
InitResources(c, p, pr, a) ==
    /\ cfg = c
    /\ cfgChanged = TRUE
    /\ sampler = c
    /\ ball = p
    /\ world = [x \in {} |-> x]
    /\ loaded = [x \in {} |-> x]
    /\ in_progress = {}
    /\ pc = "update_terrain_chunks"
    /\ cycle = 0
    /\ center = <<0, 0>>
    /\ eligible = {}
    /\ submitted = {}
    /\ evicted = {}
    /\ finalized = {}
    /\ invalidated = FALSE
    /\ changes = 0
    /\ global_mat = DefaultGlobalMaterial
    /\ probe = pr
    /\ app = a

InitProbing(c, p, pr) == InitResources(c, p, pr, NoApp)

InitWith(c, p) == InitProbing(c, p, NoProbe)

Init ==
    \E r \in Radii :
        InitWith([DefaultConfig EXCEPT !.view_radius_chunks = r,
                                       !.max_spawn_per_frame = 1],
                 [x |-> 10, y |-> 0, z |-> 10])

Next ==
    \/ UpdateTerrainChunks(MaxCycles)
    \/ BuildCompletes
    \/ FinalizeChunkTasks
    \/ ApplyTerrainConfigChanges
    \/ ConfigChange(MaxConfigChanges)
    \/ MoveBall

Spec == Init /\ [][Next]_vars

----------------------------------------------------------------------------
(* Properties of the streaming specification *)

Chebyshev(c, cc) ==
    IF Abs(c[1] - cc[1]) > Abs(c[2] - cc[2]) THEN Abs(c[1] - cc[1]) ELSE Abs(c[2] - cc[2])

StateOf(ld, ip, c) ==
    IF c \in DOMAIN ld THEN "Loaded" ELSE IF c \in ip THEN "Pending" ELSE "NotPresent"

DesiredNow == Range(desired_sorted(center_chunk(ball, sampler), sampler.view_radius_chunks))

AfterUpdate == pc = "finalize_chunk_tasks"
EndOfCycle == pc = "update_terrain_chunks" /\ cycle > 0

\* C1: no coordinate is at once a key of LoadedChunks and a member of
\* InProgress, whatever submissions, completions, finalizes, evictions, ball
\* moves and invalidations have happened
C1_RegistriesDisjoint == DOMAIN loaded \cap in_progress = {}

C1_Witness == finalized # {} /\ in_progress # {} /\ DOMAIN loaded # {}

\* C2 as stated: at the end of every cycle each loaded coordinate is within
\* Chebyshev distance view_radius_chunks of the observer chunk of that cycle
C2_EndOfCycleWithinRadius ==
    EndOfCycle =>
        \A c \in DOMAIN loaded : Chebyshev(c, center) <= sampler.view_radius_chunks

\* C2 amended: right after update_terrain_chunks each loaded coordinate is
\* within the radius of the observer chunk it evaluated, and at the end of the
\* cycle so is each loaded coordinate that finalize_chunk_tasks did not merge
\* in that cycle
C2_WithinRadiusAfterEviction ==
    /\ AfterUpdate =>
          \A c \in DOMAIN loaded : Chebyshev(c, center) <= sampler.view_radius_chunks
    /\ EndOfCycle =>
          \A c \in DOMAIN loaded \ finalized :
              Chebyshev(c, center) <= sampler.view_radius_chunks

C2_Witness == AfterUpdate /\ evicted # {} /\ DOMAIN loaded # {}

C4_InvalidationClearsBoth ==
    (pc = "update_terrain_chunks" /\ invalidated) =>
        /\ DOMAIN loaded = {}
        /\ in_progress = {}
        /\ Chunks = {}
        /\ sampler = cfg

\* C6: one run of update_terrain_chunks submits at most max_spawn_per_frame (of
\* the sampler's configuration snapshot) builds, and the eligible coordinates it
\* did not submit are still NotPresent after it
C6_SpawnBudget ==
    AfterUpdate =>
        /\ Cardinality(submitted) <= sampler.max_spawn_per_frame
        /\ submitted \subseteq eligible
        /\ \A c \in eligible \ submitted :
              StateOf(loaded, in_progress, c) = "NotPresent"

C6_Witness ==
    /\ AfterUpdate
    /\ Cardinality(eligible) > sampler.max_spawn_per_frame
    /\ Cardinality(submitted) = sampler.max_spawn_per_frame

\* C7: no eligible coordinate left unsubmitted by a cycle is strictly nearer
\* (squared chunk distance) to the observer chunk than one it submitted
C7_NearestFirst ==
    AfterUpdate =>
        \A s \in submitted : \A u \in eligible \ submitted :
            sort_key(u, center) >= sort_key(s, center)

C7_Witness ==
    /\ AfterUpdate
    /\ \E s \in submitted : \E u \in eligible \ submitted :
          sort_key(u, center) > sort_key(s, center)
    /\ \E c \in DOMAIN loaded \cup (in_progress \ submitted) :
          \E s \in submitted : sort_key(c, center) < sort_key(s, center)

Settled ==
    /\ pc = "update_terrain_chunks" /\ pc' = "finalize_chunk_tasks"
    /\ cycle > 0
    /\ center_chunk(ball, sampler) = center
    /\ DesiredNow \subseteq DOMAIN loaded \cup in_progress

\* C9 as stated: with every desired coordinate Loaded or Pending and the
\* observer where the last cycle saw it, update_terrain_chunks submits nothing
\* and leaves LoadedChunks and InProgress as they were
C9_SettledRunChangesNothing ==
    [][Settled => submitted' = {} /\ in_progress' = in_progress /\ loaded' = loaded]_vars

\* C9 amended: in that case it submits nothing and leaves InProgress as it was,
\* and LoadedChunks loses exactly its coordinates beyond the view radius (none,
\* when all are in range)
C9_SettledRunOnlyEvicts ==
    [][Settled =>
          /\ submitted' = {}
          /\ in_progress' = in_progress
          /\ DOMAIN loaded' =
                {c \in DOMAIN loaded :
                    Chebyshev(c, center) <= sampler.view_radius_chunks}
          /\ \A c \in DOMAIN loaded' : loaded'[c] = loaded[c]]_vars

C9_Witness ==
    /\ AfterUpdate /\ cycle >= 2
    /\ eligible = {} /\ submitted = {}
    /\ center_chunk(ball, sampler) = center
    /\ DesiredNow \subseteq DOMAIN loaded \cup in_progress

EntitiesAt(c, kind) == {e \in DOMAIN world : world[e].coord = c /\ world[e].kind = kind}

\* C10: a registered coordinate is never submitted again: a coordinate has at
\* most one build task and at most one chunk entity, and never both
C10_NoDuplicate ==
    /\ AfterUpdate => submitted \cap DOMAIN loaded = {}
    /\ \A e \in DOMAIN world :
          Cardinality(EntitiesAt(world[e].coord, "ChunkBuildTask"))
            + Cardinality(EntitiesAt(world[e].coord, "TerrainChunk")) = 1

C10_Witness ==
    /\ AfterUpdate /\ submitted # {}
    /\ \E c \in DOMAIN loaded : Chebyshev(c, center) <= sampler.view_radius_chunks
    /\ \E c \in in_progress \ submitted :
          Chebyshev(c, center) <= sampler.view_radius_chunks

\* C19: once the shared material exists it stays, its min_h never increases
\* and its max_h never decreases, whatever is evicted or invalidated; a run of
\* finalize_chunk_tasks that merges results leaves min_h at the least and max_h
\* at the greatest of the range before it (if the material existed) and the
\* min_h / max_h of the results merged, which makes them the extremes over all
\* results merged so far; no other step writes the range
C19_HeightRangeMonotone ==
    [][LET ready == {e \in Tasks : world[e].done}
           mins  == {world[e].min_h : e \in ready}
                        \cup (IF global_mat.handle THEN {global_mat.min_h} ELSE {})
           maxs  == {world[e].max_h : e \in ready}
                        \cup (IF global_mat.handle THEN {global_mat.max_h} ELSE {})
       IN  /\ global_mat.handle =>
                 /\ global_mat'.handle
                 /\ global_mat'.min_h <= global_mat.min_h
                 /\ global_mat'.max_h >= global_mat.max_h
           /\ IF pc = "finalize_chunk_tasks" /\ pc' = "apply_terrain_config_changes"
                    /\ ready # {}
              THEN /\ global_mat'.handle
                   /\ global_mat'.min_h \in mins /\ \A h \in mins : global_mat'.min_h <= h
                   /\ global_mat'.max_h \in maxs /\ \A h \in maxs : global_mat'.max_h >= h
              ELSE global_mat' = global_mat
      ]_vars

\* the terrain was invalidated in the previous run of the schedule, and the
\* range still holds a minimum that none of the chunks merged since has
C19_Witness ==
    /\ pc = "apply_terrain_config_changes"
    /\ finalized # {} /\ invalidated
    /\ \A c \in finalized : world[loaded[c]].min_h > global_mat.min_h
    /\ \E c \in finalized : world[loaded[c]].max_h = global_mat.max_h

----------------------------------------------------------------------------
(* The default configuration with a resting ball: which resolution each      *)
(* submitted build gets.  No build completes here; every task stays pending. *)

LodBallPositions ==
    {[x |-> px, y |-> py, z |-> pz] : px \in {0, 100}, py \in {0, 30}, pz \in {0, 100}}

InitLod == \E p \in LodBallPositions : InitWith(DefaultConfig, p)

NextLod ==
    \/ UpdateTerrainChunks(LodCycles)
    \/ FinalizeChunkTasks
    \/ ApplyTerrainConfigChanges

SpecLod == InitLod /\ [][NextLod]_vars

\* squared horizontal (x-z) distance from the observer to the centre of a chunk
HorizontalDistSq(coord, pos, c) ==
    LET cx == coord[1] * c.chunk_size + c.chunk_size \div 2
        cz == coord[2] * c.chunk_size + c.chunk_size \div 2
    IN  (cx - pos.x) * (cx - pos.x) + (cz - pos.z) * (cz - pos.z)

\* C5: of two builds submitted for one observer position, the one whose chunk
\* centre is horizontally farther from the observer never has the finer
\* (larger) resolution
C5_FartherNeverFiner ==
    \A a \in DOMAIN world : \A b \in DOMAIN world :
        HorizontalDistSq(world[a].coord, ball, sampler)
            > HorizontalDistSq(world[b].coord, ball, sampler)
        => world[a].res <= world[b].res

----------------------------------------------------------------------------
(* The scenario of a resting observer at the origin with view radius 2 and   *)
(* the default budget.  Builds complete in groups: all running builds up to  *)
(* a chosen squared chunk distance, or all from it on.                       *)

ScenarioRadius == 2

ScenarioConfig == [DefaultConfig EXCEPT !.view_radius_chunks = ScenarioRadius]

InitScenario == InitWith(ScenarioConfig, [x |-> 0, y |-> 0, z |-> 0])

BuildsCompleteInBand ==
    /\ pc = "finalize_chunk_tasks"
    /\ \E k \in {sort_key(world[e].coord, center) : e \in Tasks} :
       \E nearest \in BOOLEAN :
          LET S == {e \in Tasks : /\ ~world[e].done
                                  /\ IF nearest
                                     THEN sort_key(world[e].coord, center) <= k
                                     ELSE sort_key(world[e].coord, center) >= k}
          IN  /\ S # {}
              /\ world' = [e \in DOMAIN world |->
                              IF e \in S THEN [world[e] EXCEPT !.done = TRUE]
                              ELSE world[e]]
    /\ UNCHANGED <<cfg, cfgChanged, sampler, ball, loaded, in_progress, pc, cycle,
                   center, eligible, submitted, evicted, finalized, invalidated, changes,
                   global_mat, probe, app>>

NextScenario ==
    \/ UpdateTerrainChunks(ScenarioCycles)
    \/ BuildsCompleteInBand
    \/ FinalizeChunkTasks
    \/ ApplyTerrainConfigChanges

SpecScenario == InitScenario /\ [][NextScenario]_vars

\* C8: with radius 2, budget 16 and a resting observer at the origin there are
\* 25 desired coordinates; cycle 1 submits the 16 nearest, cycle 2 the other 9
\* and every later cycle none, whichever builds have completed meanwhile
C8_Scenario ==
    AfterUpdate =>
        /\ Cardinality(DesiredNow) = 25
        /\ cycle = 1 =>
              /\ Cardinality(submitted) = 16
              /\ submitted \subseteq DesiredNow
              /\ \A s \in submitted : \A u \in DesiredNow \ submitted :
                    sort_key(s, center) <= sort_key(u, center)
        /\ cycle = 2 =>
              /\ Cardinality(submitted) = 9
              /\ submitted = eligible
              /\ DOMAIN loaded \cup in_progress = DesiredNow
        /\ cycle >= 3 => submitted = {}

C8_Witness ==
    /\ AfterUpdate /\ cycle = 3
    /\ DOMAIN loaded # {} /\ in_progress # {}
    /\ DOMAIN loaded \cup in_progress = DesiredNow

----------------------------------------------------------------------------
(* The same scenario with an observer that jumps from chunk (0,0) to chunk   *)
(* (5,0), five chunk widths along x, between two runs of the schedule.       *)
(* Builds complete in groups: the running builds of the columns x <= 0, of   *)
(* the columns x >= 1, or all of them.                                       *)

\* Update schedule runs explored with the jumping observer
JumpCycles == 3

JumpTarget == [x |-> 5 * ScenarioConfig.chunk_size, y |-> 0, z |-> 0]

BallJumps ==
    /\ pc = "update_terrain_chunks"
    /\ ball # JumpTarget
    /\ ball' = JumpTarget
    /\ UNCHANGED <<cfg, cfgChanged, sampler, world, loaded, in_progress, pc, cycle,
                   center, eligible, submitted, evicted, finalized, invalidated, changes,
                   global_mat, probe, app>>

BuildsCompleteInHalf ==
    /\ pc = "finalize_chunk_tasks"
    /\ \E side \in {"west", "east", "both"} :
          LET S == {e \in Tasks : /\ ~world[e].done
                                  /\ side = "west" => world[e].coord[1] <= 0
                                  /\ side = "east" => world[e].coord[1] >= 1}
          IN  /\ S # {}
              /\ world' = [e \in DOMAIN world |->
                              IF e \in S THEN [world[e] EXCEPT !.done = TRUE]
                              ELSE world[e]]
    /\ UNCHANGED <<cfg, cfgChanged, sampler, ball, loaded, in_progress, pc, cycle,
                   center, eligible, submitted, evicted, finalized, invalidated, changes,
                   global_mat, probe, app>>

NextJump ==
    \/ UpdateTerrainChunks(JumpCycles)
    \/ BuildsCompleteInHalf
    \/ FinalizeChunkTasks
    \/ ApplyTerrainConfigChanges
    \/ BallJumps

SpecJump == InitScenario /\ [][NextJump]_vars

\* C11: a run of update_terrain_chunks removes from LoadedChunks, and despawns
\* the entity of, every coordinate that was loaded when it began and lies
\* farther than view_radius_chunks (Chebyshev) from the observer's chunk, also
\* when the spawn loop of the same run broke on its budget
C11_EvictsAllOutOfRange ==
    [][(pc = "update_terrain_chunks" /\ pc' = "finalize_chunk_tasks") =>
          \A c \in DOMAIN loaded :
              Chebyshev(c, center_chunk(ball, sampler)) > sampler.view_radius_chunks
              => /\ c \notin DOMAIN loaded'
                 /\ loaded[c] \notin DOMAIN world'
                 /\ c \in evicted']_vars

\* the observer has jumped from (0,0) to (5,0): chunks of the old neighbourhood
\* were evicted by a run that left desired coordinates unsubmitted
C11_Witness ==
    /\ AfterUpdate /\ center = <<5, 0>>
    /\ evicted # {} /\ evicted \cap DOMAIN loaded = {}
    /\ \A c \in evicted : Chebyshev(c, <<0, 0>>) <= ScenarioRadius
    /\ Cardinality(submitted) = sampler.max_spawn_per_frame
    /\ eligible \ submitted # {}

\* C12: a build is never dropped: its entity stays, a task, until a run of
\* finalize_chunk_tasks finds it completed; that run makes it a loaded chunk and
\* takes its coordinate out of InProgressChunks however far the observer has
\* moved; the next run of update_terrain_chunks evicts it if the observer is
\* then still out of range
C12_StaleBuildFinalizedThenEvicted ==
    [][/\ \A e \in Tasks :
             /\ e \in DOMAIN world'
             /\ \/ world'[e].kind = "ChunkBuildTask"
                \/ world[e].done /\ pc = "finalize_chunk_tasks"
       /\ (pc = "finalize_chunk_tasks" /\ pc' = "apply_terrain_config_changes") =>
             \A e \in Tasks : world[e].done =>
                 /\ world'[e].kind = "TerrainChunk"
                 /\ world[e].coord \in DOMAIN loaded'
                 /\ loaded'[world[e].coord] = e
                 /\ world[e].coord \notin in_progress'
       /\ (pc = "update_terrain_chunks" /\ pc' = "finalize_chunk_tasks") =>
             \A c \in finalized \cap DOMAIN loaded :
                 Chebyshev(c, center') > sampler.view_radius_chunks
                 => c \notin DOMAIN loaded' /\ loaded[c] \notin DOMAIN world'
      ]_vars

\* a build of the old neighbourhood was merged by the finalize of a run whose
\* observer was already at (5,0) (it merged builds of the new neighbourhood
\* too), and the run after it has evicted the chunk
C12_Witness ==
    /\ AfterUpdate /\ center = <<5, 0>>
    /\ \E c \in evicted \cap finalized : Chebyshev(c, <<0, 0>>) <= ScenarioRadius
    /\ \E d \in finalized : Chebyshev(d, center) <= ScenarioRadius

\* C14: finalize_chunk_tasks can always run, whether or not any build has
\* completed; it merges exactly the builds that have completed when it polls,
\* and leaves every other build as it was, its coordinate still in progress
C14_FinalizeNeverWaits ==
    /\ [](pc = "finalize_chunk_tasks" => ENABLED FinalizeChunkTasks)
    /\ [][(pc = "finalize_chunk_tasks" /\ pc' = "apply_terrain_config_changes") =>
             /\ finalized' = {world[e].coord : e \in {t \in Tasks : world[t].done}}
             /\ \A e \in Tasks : world[e].done <=> world'[e].kind = "TerrainChunk"
             /\ \A e \in Tasks : ~world[e].done =>
                    /\ world'[e] = world[e]
                    /\ world[e].coord \in in_progress'
                    /\ world[e].coord \notin finalized'
          ]_vars

\* a run of finalize_chunk_tasks merged some builds and passed over others
C14_Witness ==
    /\ pc = "apply_terrain_config_changes"
    /\ finalized # {}
    /\ \E e \in Tasks : ~world[e].done /\ world[e].coord \in in_progress

\* C15: an entity turns from task to chunk only in a run of finalize_chunk_tasks
\* that finds its build completed; the run that merges it takes the task
\* component away, so no completed task is left for a later poll; a merged
\* entity is not touched by any later run, and a coordinate is merged only for
\* a task that has completed
C15_ResultMergedOnce ==
    [][/\ \A e \in Tasks \cap DOMAIN world' :
             world'[e].kind = "TerrainChunk" =>
                 /\ pc = "finalize_chunk_tasks" /\ world[e].done
                 /\ world[e].coord \in finalized'
                 /\ loaded'[world[e].coord] = e
       /\ \A e \in DOMAIN world' :
             (world'[e].kind = "ChunkBuildTask" /\ world'[e].done)
                 => pc' = "finalize_chunk_tasks"
       /\ \A e \in Chunks \cap DOMAIN world' : world'[e] = world[e]
       /\ (pc = "finalize_chunk_tasks" /\ pc' = "apply_terrain_config_changes") =>
             \A c \in finalized' :
                 Cardinality({t \in Tasks : world[t].done /\ world[t].coord = c}) = 1
      ]_vars

\* a run of finalize_chunk_tasks merged builds while a chunk merged by an
\* earlier run was loaded, and left that chunk alone
C15_Witness ==
    /\ pc = "apply_terrain_config_changes"
    /\ finalized # {}
    /\ \E e \in Chunks : world[e].coord \notin finalized /\ loaded[world[e].coord] = e

\* C18: the resolution and the collider eligibility of a build are those chosen
\* by the run of update_terrain_chunks that submits it, and no step changes
\* them for as long as the entity lives, as a task or as a chunk
C18_ResolutionFixed ==
    [][/\ \A e \in DOMAIN world \cap DOMAIN world' :
             /\ world'[e].res = world[e].res
             /\ world'[e].create_collider = world[e].create_collider
             /\ world'[e].coord = world[e].coord
       /\ \A e \in DOMAIN world' \ DOMAIN world :
             /\ pc = "update_terrain_chunks"
             /\ world'[e].res = chosen_res(world'[e].coord, ball, sampler)
             /\ world'[e].create_collider = (world'[e].res # sampler.lod_far_resolution)
      ]_vars

\* a loaded chunk whose resolution is not the one its distance from the
\* observer would select now
C18_Witness ==
    \E e \in Chunks :
        /\ loaded[world[e].coord] = e
        /\ world[e].res # chosen_res(world[e].coord, ball, sampler)

----------------------------------------------------------------------------
(* The schedule running for ever, with view radius 0 and a ball that keeps   *)
(* moving between chunks.  The Update schedule runs every frame, so each of  *)
(* its three systems is taken again and again (weak fairness).  A build runs *)
(* on the task pool beside the schedule and ends after finitely many frames; *)
(* its completion is observable only where finalize_chunk_tasks is about to  *)
(* poll, that is again and again but not continuously, hence strong fairness *)
(* for the completion of each build.                                         *)

LiveCoords == {<<i, 0>> : i \in 0..MaxBallChunk}

LiveEntities == {<<c, k>> : c \in LiveCoords, k \in {0, 1}}

InitLive ==
    InitWith([DefaultConfig EXCEPT !.view_radius_chunks = 0, !.max_spawn_per_frame = 1],
             [x |-> 10, y |-> 0, z |-> 10])

NextLive ==
    \/ UpdateTerrainChunksForever
    \/ BuildCompletes
    \/ FinalizeChunkTasks
    \/ ApplyTerrainConfigChanges
    \/ MoveBall

FairLive ==
    /\ WF_vars(UpdateTerrainChunksForever)
    /\ WF_vars(FinalizeChunkTasks)
    /\ WF_vars(ApplyTerrainConfigChanges)
    /\ \A e \in LiveEntities : SF_vars(BuildCompletesOf(e))

SpecLive == InitLive /\ [][NextLive]_vars /\ FairLive

\* C13: a coordinate in InProgressChunks is eventually in LoadedChunks, wherever
\* the observer moves meanwhile
C13_PendingEventuallyLoaded ==
    \A c \in LiveCoords : (c \in in_progress) ~> (c \in DOMAIN loaded)

\* a build was merged while the observer was in another chunk
C13_Witness ==
    /\ pc = "apply_terrain_config_changes"
    /\ \E c \in finalized : c # center_chunk(ball, sampler) /\ c \in DOMAIN loaded

----------------------------------------------------------------------------
(* The LOD selection by itself: configurations with every combination of a   *)
(* few resolutions and thresholds (ordered or not), and two distances.       *)
(* Distances are given by their squares, so that distances between two whole *)
(* thresholds are covered too.                                               *)

\* resolutions 1..SelMaxRes, thresholds 0..SelMaxThreshold, squared distances
\* 0..SelMaxDistSq
SelMaxRes == 3
SelMaxThreshold == 2
SelMaxDistSq == 5

SelectorConfigs ==
    {[DefaultConfig EXCEPT !.resolution = n, !.lod_mid_resolution = m,
                           !.lod_far_resolution = f, !.lod_mid_distance = a,
                           !.lod_far_distance = b] :
        n \in 1..SelMaxRes, m \in 1..SelMaxRes, f \in 1..SelMaxRes,
        a \in 0..SelMaxThreshold, b \in 0..SelMaxThreshold}

InitSelector ==
    \E c \in SelectorConfigs : \E d1 \in 0..SelMaxDistSq : \E d2 \in 0..SelMaxDistSq :
        InitProbing(DefaultConfig, [x |-> 0, y |-> 0, z |-> 0],
                    [f |-> "arguments", c |-> c, d1 |-> d1, d2 |-> d2])

\* the selection as update_terrain_chunks makes it for a chunk at either distance
SelectLod ==
    /\ probe.f = "arguments"
    /\ probe' = [f |-> "lod_select", c |-> probe.c, d1 |-> probe.d1, d2 |-> probe.d2,
                 res1 |-> lod_select(probe.d1, probe.c),
                 res2 |-> lod_select(probe.d2, probe.c),
                 collider1 |-> create_collider(lod_select(probe.d1, probe.c), probe.c)]
    /\ UNCHANGED <<cfg, cfgChanged, sampler, ball, world, loaded, in_progress, pc, cycle,
                   center, eligible, submitted, evicted, finalized, invalidated, changes,
                   global_mat, app>>

NextSelector == SelectLod

SpecSelector == InitSelector /\ [][NextSelector]_vars

\* C16: the selection is the far resolution for a distance above the far
\* threshold, otherwise the mid resolution for a distance above the mid
\* threshold, otherwise the near resolution (a distance equal to a threshold
\* is not above it); the build gets a collider exactly when the resolution
\* selected differs from the far resolution
C16_Selector ==
    probe.f = "lod_select" =>
        LET c   == probe.c
            far == c.lod_far_distance * c.lod_far_distance
            mid == c.lod_mid_distance * c.lod_mid_distance
        IN  /\ probe.d1 > far => probe.res1 = c.lod_far_resolution
            /\ (probe.d1 <= far /\ probe.d1 > mid) => probe.res1 = c.lod_mid_resolution
            /\ (probe.d1 <= far /\ probe.d1 <= mid) => probe.res1 = c.resolution
            /\ probe.collider1 <=> probe.res1 # c.lod_far_resolution

\* a distance equal to the far threshold, above the mid threshold: mid tier,
\* with a collider
C16_Witness ==
    /\ probe.f = "lod_select"
    /\ probe.c.lod_far_distance > probe.c.lod_mid_distance
    /\ probe.d1 = probe.c.lod_far_distance * probe.c.lod_far_distance
    /\ probe.c.lod_mid_resolution # probe.c.lod_far_resolution
    /\ probe.res1 = probe.c.lod_mid_resolution /\ probe.collider1

\* C17: with near > mid > far > 0 resolutions and thresholds far > mid >= 0, the
\* selection for the smaller of two distances is at least the selection for
\* the greater
C17_Monotone ==
    probe.f = "lod_select" =>
        LET c == probe.c
        IN  (/\ c.resolution > c.lod_mid_resolution
             /\ c.lod_mid_resolution > c.lod_far_resolution
             /\ c.lod_far_resolution > 0
             /\ c.lod_far_distance > c.lod_mid_distance
             /\ c.lod_mid_distance >= 0
             /\ probe.d1 < probe.d2)
            => probe.res1 >= probe.res2

\* ordered configuration, two distances on either side of a threshold
C17_Witness ==
    /\ probe.f = "lod_select"
    /\ probe.c.resolution > probe.c.lod_mid_resolution
    /\ probe.c.lod_mid_resolution > probe.c.lod_far_resolution
    /\ probe.c.lod_far_distance > probe.c.lod_mid_distance
    /\ probe.d1 < probe.d2
    /\ probe.res1 > probe.res2

----------------------------------------------------------------------------
(* The height sampler by itself: two small rasters, a few world sizes and    *)
(* every position of a square that reaches beyond the extent of each.        *)

\* positions -SampleMaxCoord..SampleMaxCoord on either axis
SampleMaxCoord == 3

ZeroBased(seq) == [i \in 0..(Len(seq) - 1) |-> seq[i + 1]]

Rasters ==
    { [width |-> 2, height |-> 2, data_r |-> ZeroBased(<<255, 102, 51, 204>>)],
      [width |-> 3, height |-> 2, data_r |-> ZeroBased(<<51, 0, 153, 255, 102, 204>>)],
      [width |-> 3, height |-> 3,
       data_r |-> ZeroBased(<<255, 255, 0, 255, 255, 0, 0, 0, 0>>)] }

SampleWorldSizes == {2, 3, 4}

SampleMaxHeights == {10, DefaultConfig.heightmap_max_height}

SamplerConfigs ==
    {[DefaultConfig EXCEPT !.heightmap_world_size = ws, !.heightmap_max_height = mh,
                           !.amplitude = a] :
        ws \in SampleWorldSizes, mh \in SampleMaxHeights, a \in Amplitudes}

InitSampler ==
    \E c \in SamplerConfigs : \E hm \in Rasters :
    \E x \in -SampleMaxCoord..SampleMaxCoord : \E z \in -SampleMaxCoord..SampleMaxCoord :
        InitProbing(c, [x |-> 0, y |-> 0, z |-> 0],
                    [f |-> "position", c |-> c, hm |-> hm, x |-> x, z |-> z])

\* a caller (a build, the ball physics) asks the sampler for the height at (x, z)
SampleHeight ==
    /\ probe.f = "position"
    /\ probe' = [f |-> "height", c |-> probe.c, hm |-> probe.hm, x |-> probe.x,
                 z |-> probe.z, h |-> height(probe.x, probe.z, probe.c, probe.hm)]
    /\ UNCHANGED <<cfg, cfgChanged, sampler, ball, world, loaded, in_progress, pc, cycle,
                   center, eligible, submitted, evicted, finalized, invalidated, changes,
                   global_mat, app>>

NextSampler == SampleHeight

SpecSampler == InitSampler /\ [][NextSampler]_vars

\* (x, z) lies in the extent [-world_size / 2, world_size / 2] on both axes
InsideExtent(x, z, c) ==
    /\ -c.heightmap_world_size <= 2 * x /\ 2 * x <= c.heightmap_world_size
    /\ -c.heightmap_world_size <= 2 * z /\ 2 * z <= c.heightmap_world_size

\* the raster sample of column i, row j
RasterAt(hm, i, j) == hm.data_r[j * hm.width + i]

\* The bilinear interpolation at (x, z) as a weighted sum of the 4 enclosing
\* samples: pixel position u = un / ud, enclosing columns i and i1 (i1 = i on
\* the last column), weight fx / ud of column i1, likewise for the rows.
\* samples holds the four samples, n / d the interpolated red value over 255
\* (d is the denominator the sampler uses, so the numerators compare directly).
Bilinear(hm, x, z, c) ==
    LET ud == 2 * c.heightmap_world_size
        un == (2 * x + c.heightmap_world_size) * (hm.width - 1)
        vn == (2 * z + c.heightmap_world_size) * (hm.height - 1)
        i  == un \div ud
        j  == vn \div ud
        i1 == Min2(i + 1, hm.width - 1)
        j1 == Min2(j + 1, hm.height - 1)
        fx == un - i * ud
        fz == vn - j * ud
    IN  [samples |-> {RasterAt(hm, i, j), RasterAt(hm, i1, j),
                      RasterAt(hm, i, j1), RasterAt(hm, i1, j1)},
         fx |-> fx, fz |-> fz,
         n |-> RasterAt(hm, i, j) * (ud - fx) * (ud - fz)
               + RasterAt(hm, i1, j) * fx * (ud - fz)
               + RasterAt(hm, i, j1) * (ud - fx) * fz
               + RasterAt(hm, i1, j1) * fx * fz,
         d |-> ud * ud * 255]

\* C21: inside the extent, edges and corners included, the height is the
\* bilinear interpolation of the 4 enclosing samples over 255, times
\* max_height * amplitude; where the 4 samples are 255, max_height is 200 and
\* amplitude 1, the height is 200
C21_Bilinear ==
    (probe.f = "height" /\ InsideExtent(probe.x, probe.z, probe.c)) =>
        LET b == Bilinear(probe.hm, probe.x, probe.z, probe.c)
        IN  /\ ~probe.h.panic
            /\ probe.h.d = b.d
            /\ probe.h.n = b.n * probe.c.heightmap_max_height * probe.c.amplitude
            /\ (b.samples = {255} /\ probe.c.heightmap_max_height = 200
                    /\ probe.c.amplitude = 1)
                   => probe.h.n = 200 * probe.h.d

\* a height was sampled strictly between four samples that are not all equal
C21_Witness ==
    /\ probe.f = "height"
    /\ InsideExtent(probe.x, probe.z, probe.c)
    /\ LET b == Bilinear(probe.hm, probe.x, probe.z, probe.c)
       IN  b.fx > 0 /\ b.fz > 0 /\ Cardinality(b.samples) = 4

----------------------------------------------------------------------------
(* The height sampler at the corner (world_size / 2, world_size / 2) of the  *)
(* extent, default world size: the f32 positions at and just above it.       *)

\* positions up to EdgeMaxSteps f32 values above world_size / 2 on either axis
EdgeMaxSteps == 7

EdgeConfigs == {[DefaultConfig EXCEPT !.amplitude = a] : a \in Amplitudes}

InitEdge ==
    \E c \in EdgeConfigs : \E hm \in Rasters :
    \E kx \in 0..EdgeMaxSteps : \E kz \in 0..EdgeMaxSteps :
        InitProbing(c, [x |-> 0, y |-> 0, z |-> 0],
                    [f |-> "edge_position", c |-> c, hm |-> hm, kx |-> kx, kz |-> kz])

SampleHeightBeyondEdge ==
    /\ probe.f = "edge_position"
    /\ probe' = [f |-> "edge_height", c |-> probe.c, hm |-> probe.hm, kx |-> probe.kx,
                 kz |-> probe.kz,
                 h |-> sample_heightmap_beyond_edge(probe.kx, probe.kz, probe.c, probe.hm)]
    /\ UNCHANGED <<cfg, cfgChanged, sampler, ball, world, loaded, in_progress, pc, cycle,
                   center, eligible, submitted, evicted, finalized, invalidated, changes,
                   global_mat, app>>

NextEdge == SampleHeightBeyondEdge

SpecEdge == InitEdge /\ [][NextEdge]_vars

\* C20: at a position beyond [-world_size / 2, world_size / 2] on either axis
\* the height is exactly 0 and no index is out of bounds
C20_ZeroOutsideExtent ==
    probe.f = "edge_height" =>
        ((probe.kx > 0 \/ probe.kz > 0) => probe.h.n = 0 /\ ~probe.h.panic)

----------------------------------------------------------------------------
(* Start-up: the sampler does not exist until init_sampler has built it from *)
(* the heightmap file, and is rebuilt from the file by every invalidation.   *)
(* probe.loadable is the set of paths image::open can open and decode.       *)

\* schedule runs explored after start-up
StartupCycles == 2

\* the TerrainSampler resource before init_sampler has inserted it
NoSampler == [heightmap_path |-> "none"]

HeightmapPaths == {DefaultConfig.heightmap_path, "assets/heightmaps/missing.png"}

\* a loader that substitutes flat terrain for a file it cannot open
load_with_fallback(path, files) == TRUE

\* Heightmap::load returns iff image::open(path) succeeds; expect panics otherwise
load(path, files) == path \in files

\* init_sampler (PreStartup): TerrainSampler::new either yields the resource or
\* panics, and a panic in a system ends the app before any Update schedule runs
init_sampler ==
    /\ pc = "init_sampler"
    /\ IF load(cfg.heightmap_path, probe.loadable)
       THEN sampler' = cfg /\ pc' = "update_terrain_chunks"
       ELSE pc' = "panicked" /\ UNCHANGED sampler
    /\ UNCHANGED <<cfg, cfgChanged, ball, world, loaded, in_progress, cycle, center,
                   eligible, submitted, evicted, finalized, invalidated, changes,
                   global_mat, probe, app>>

\* apply_terrain_config_changes where the file is read again: in the clearing
\* branch loaded.map.clear() has run when TerrainSampler::new panics, and the
\* queued despawns and insert_resource are never applied
ApplyTerrainConfigChangesLoading ==
    IF /\ pc = "apply_terrain_config_changes"
       /\ cfgChanged /\ fundamental_changed(cfg, sampler)
       /\ ~load(cfg.heightmap_path, probe.loadable)
    THEN /\ loaded' = clear_loaded(loaded)
         /\ pc' = "panicked"
         /\ UNCHANGED <<cfg, cfgChanged, sampler, ball, world, in_progress, cycle, center,
                        eligible, submitted, evicted, finalized, invalidated, changes,
                        global_mat, probe, app>>
    ELSE ApplyTerrainConfigChanges

\* the configuration is pointed at another heightmap file
ChangeHeightmapPath(cap) ==
    /\ pc = "apply_terrain_config_changes"
    /\ changes < cap
    /\ changes' = changes + 1
    /\ \E path \in HeightmapPaths \ {cfg.heightmap_path} :
          cfg' = [cfg EXCEPT !.heightmap_path = path]
    /\ cfgChanged' = TRUE
    /\ UNCHANGED <<sampler, ball, world, loaded, in_progress, pc, cycle,
                   center, eligible, submitted, evicted, finalized, invalidated,
                   global_mat, probe, app>>

InitStartup ==
    \E r \in Radii : \E b \in Budgets : \E files \in SUBSET HeightmapPaths :
        /\ cfg = [DefaultConfig EXCEPT !.view_radius_chunks = r, !.max_spawn_per_frame = b]
        /\ cfgChanged = TRUE
        /\ sampler = NoSampler
        /\ ball = [x |-> 10, y |-> 0, z |-> 10]
        /\ world = [x \in {} |-> x]
        /\ loaded = [x \in {} |-> x]
        /\ in_progress = {}
        /\ pc = "init_sampler"
        /\ cycle = 0
        /\ center = <<0, 0>>
        /\ eligible = {}
        /\ submitted = {}
        /\ evicted = {}
        /\ finalized = {}
        /\ invalidated = FALSE
        /\ changes = 0
        /\ global_mat = DefaultGlobalMaterial
        /\ probe = [f |-> "heightmap_files", loadable |-> files]
        /\ app = NoApp

NextStartup ==
    \/ init_sampler
    \/ UpdateTerrainChunks(StartupCycles)
    \/ BuildCompletes
    \/ FinalizeChunkTasks
    \/ ApplyTerrainConfigChangesLoading
    \/ ChangeHeightmapPath(MaxConfigChanges)

SpecStartup == InitStartup /\ [][NextStartup]_vars

\* C22: when the heightmap file cannot be loaded the construction of the sampler
\* is fatal: the app stops for good, every sampler that comes into existence was
\* built from a file that loads (no fallback terrain), and while no sampler
\* exists no chunk is submitted or loaded
C22_LoadFailureFatal ==
    /\ [](sampler = NoSampler =>
            /\ in_progress = {} /\ submitted = {}
            /\ DOMAIN loaded = {} /\ DOMAIN world = {})
    /\ [][/\ pc # "panicked"
          /\ sampler' # sampler => sampler'.heightmap_path \in probe.loadable
          /\ (pc = "init_sampler" /\ cfg.heightmap_path \notin probe.loadable)
                => (pc' = "panicked" /\ sampler' = NoSampler)]_vars

\* start-up has failed on a file that does not load
C22_Witness ==
    /\ pc = "panicked"
    /\ sampler = NoSampler
    /\ cfg.heightmap_path \notin probe.loadable

----------------------------------------------------------------------------
(* CoreSimPlugin: the fixed 60 Hz tick and the AutoConfig resource.  app     *)
(* holds the resources of the App, NoResource for one that was not inserted; *)
(* fixed_runs, game_was_over and preinserted record its history.             *)

\* runs of the FixedUpdate schedule explored
MaxFixedRuns == 6

NoResource == [present |-> FALSE]

\* impl Default for AutoConfig
DefaultAutoConfig ==
    [run_duration_seconds |-> 20, swing_interval_seconds |-> 3, base_impulse |-> 6,
     upward_factor |-> 0]

\* the configurations a caller may insert before the plugin is built
CustomAutoConfigs ==
    {[DefaultAutoConfig EXCEPT !.run_duration_seconds = d] : d \in {5, 20, 60}}

\* an f32 is m / 2^e with m a whole number of 24 bits; n / d as an f32:
\* the exponent that brings n / d into [2^23, 2^24), the quotient rounded there
f32_div(n, d) ==
    IF n = 0 THEN [m |-> 0, e |-> 0]
    ELSE LET e == CHOOSE k \in 0..30 : f32_one * d <= n * 2^k /\ n * 2^k < 2 * f32_one * d
         IN  [m |-> RoundHalfEven(n * 2^e, d), e |-> e]

\* SimState::default()
DefaultSimState == [tick |-> 0, elapsed_seconds |-> [m |-> 0, e |-> 0]]

\* a step that counts the tick twice
advance_fixed_twice(s) ==
    [tick |-> s.tick + 2, elapsed_seconds |-> f32_div(s.tick + 2, 60)]

\* SimState::advance_fixed: tick += 1; elapsed_seconds = tick as f32 / 60.0
\* (tick as f32 is exact below 2^24)
advance_fixed(s) ==
    [tick |-> s.tick + 1, elapsed_seconds |-> f32_div(s.tick + 1, 60)]

\* insert_resource: the given value replaces whatever is there
insert_resource(r, value) == value

\* an init_resource that overwrites like insert_resource
init_resource_overwriting(r, value) == value

\* init_resource: the default is inserted only when no value is there
init_resource(r, value) == IF r = NoResource THEN value ELSE r

\* a caller inserts its own AutoConfig before adding the plugin
InsertAutoConfig ==
    /\ ~app.built
    /\ app.auto_config = NoResource
    /\ \E a \in CustomAutoConfigs :
          app' = [app EXCEPT !.auto_config = a, !.preinserted = a]
    /\ UNCHANGED <<cfg, cfgChanged, sampler, ball, world, loaded, in_progress, pc, cycle,
                   center, eligible, submitted, evicted, finalized, invalidated, changes,
                   global_mat, probe>>

\* CoreSimPlugin::build
CoreSimPluginBuild ==
    /\ ~app.built
    /\ app' = [app EXCEPT !.built = TRUE,
                          !.sim = insert_resource(app.sim, DefaultSimState),
                          !.auto_config = init_resource(app.auto_config, DefaultAutoConfig)]
    /\ UNCHANGED <<cfg, cfgChanged, sampler, ball, world, loaded, in_progress, pc, cycle,
                   center, eligible, submitted, evicted, finalized, invalidated, changes,
                   global_mat, probe>>

\* a tick_state that never looks at the score
game_over_frozen_never(score) == FALSE

\* if let Some(score) = score { if score.game_over { return; } }
game_over_frozen(score) == score # NoResource /\ score.game_over

\* one run of the FixedUpdate schedule: tick_state
tick_state ==
    /\ app.built
    /\ app.fixed_runs < MaxFixedRuns
    /\ app' = [app EXCEPT !.fixed_runs = @ + 1,
                          !.sim = IF game_over_frozen(app.score)
                                  THEN @
                                  ELSE advance_fixed(@)]
    /\ UNCHANGED <<cfg, cfgChanged, sampler, ball, world, loaded, in_progress, pc, cycle,
                   center, eligible, submitted, evicted, finalized, invalidated, changes,
                   global_mat, probe>>

\* the game ends (the last hole is hit): score.game_over = true
GameOver ==
    /\ app.built
    /\ app.score # NoResource
    /\ ~app.score.game_over
    /\ app' = [app EXCEPT !.score.game_over = TRUE, !.game_was_over = TRUE]
    /\ UNCHANGED <<cfg, cfgChanged, sampler, ball, world, loaded, in_progress, pc, cycle,
                   center, eligible, submitted, evicted, finalized, invalidated, changes,
                   global_mat, probe>>

\* reset_game: R pressed after game over
reset_game ==
    /\ app.built
    /\ app.score # NoResource
    /\ app.score.game_over
    /\ app' = [app EXCEPT !.score.game_over = FALSE, !.sim = DefaultSimState]
    /\ UNCHANGED <<cfg, cfgChanged, sampler, ball, world, loaded, in_progress, pc, cycle,
                   center, eligible, submitted, evicted, finalized, invalidated, changes,
                   global_mat, probe>>

\* App::new(), with or without the Score resource of the game-state plugin
InitCoreSim ==
    \E score \in {NoResource, [game_over |-> FALSE]} :
        InitResources(DefaultConfig, [x |-> 0, y |-> 0, z |-> 0], NoProbe,
                      [built |-> FALSE, sim |-> NoResource, auto_config |-> NoResource,
                       score |-> score, fixed_runs |-> 0, game_was_over |-> FALSE,
                       preinserted |-> NoResource])

NextCoreSim ==
    \/ InsertAutoConfig
    \/ CoreSimPluginBuild
    \/ tick_state
    \/ GameOver
    \/ reset_game

SpecCoreSim == InitCoreSim /\ [][NextCoreSim]_vars

\* v is the f32 nearest to n / 60
NearestF32(v, n) ==
    IF n = 0 THEN v.m = 0
    ELSE /\ f32_one <= v.m /\ v.m <= 2 * f32_one
         /\ Abs(60 * v.m - n * 2^(v.e)) <= 30

\* C23: from the default SimState, after n runs of FixedUpdate with no game
\* over, tick = n and elapsed_seconds = tick / 60 (as an f32); each fixed step
\* increments tick by exactly 1
C23_TickPerFixedStep ==
    /\ []((app.built /\ ~app.game_was_over) =>
            /\ app.sim.tick = app.fixed_runs
            /\ NearestF32(app.sim.elapsed_seconds, app.sim.tick))
    /\ [][(app.built /\ app'.fixed_runs = app.fixed_runs + 1
              /\ ~(app.score # NoResource /\ app.score.game_over))
            => app'.sim.tick = app.sim.tick + 1]_vars

\* five fixed steps have run without a game over
C23_Witness ==
    /\ app.built /\ ~app.game_was_over
    /\ app.fixed_runs = 5
    /\ app.sim.tick = 5

\* C24: once CoreSimPlugin is built an AutoConfig is present, and one inserted
\* before the build is kept as it was
C24_AutoConfigPresent ==
    app.built =>
        /\ app.auto_config # NoResource
        /\ app.preinserted # NoResource => app.auto_config = app.preinserted

\* the plugin was built over an AutoConfig that differs from the default
C24_Witness ==
    /\ app.built
    /\ app.preinserted # NoResource
    /\ app.preinserted # DefaultAutoConfig
    /\ app.auto_config = app.preinserted

----------------------------------------------------------------------------
(* Further properties of the streaming specification *)

\* C25: every loaded chunk was built from the current sampler (here: with its
\* amplitude); no build submitted with the snapshot of a replaced sampler is
\* finalized into LoadedChunks
C25_LoadedFromCurrentSampler ==
    \A coord \in DOMAIN loaded : world[loaded[coord]].amplitude = sampler.amplitude

----------------------------------------------------------------------------
(* The resolution of one chunk for two observers that stand at the same      *)
(* (x, z) at different heights, default configuration.                       *)

\* chunk coordinates 0..ObserverMaxChunk on either axis
ObserverMaxChunk == 3

ObserverHeights == {0, 50, 200}

InitObserver ==
    \E cx \in 0..ObserverMaxChunk : \E cz \in 0..ObserverMaxChunk :
    \E px \in {0, 50} : \E pz \in {0, 100} :
    \E y1 \in ObserverHeights : \E y2 \in ObserverHeights :
        InitProbing(DefaultConfig, [x |-> px, y |-> y1, z |-> pz],
                    [f |-> "observers", coord |-> <<cx, cz>>,
                     pos1 |-> [x |-> px, y |-> y1, z |-> pz],
                     pos2 |-> [x |-> px, y |-> y2, z |-> pz]])

\* the spawn loop resolves the LOD of the coordinate for either observer
ResolveLod ==
    /\ probe.f = "observers"
    /\ LET res1 == chosen_res(probe.coord, probe.pos1, sampler)
           res2 == chosen_res(probe.coord, probe.pos2, sampler)
       IN  probe' = [f |-> "chosen_res", coord |-> probe.coord, pos1 |-> probe.pos1,
                     pos2 |-> probe.pos2, res1 |-> res1, res2 |-> res2,
                     collider1 |-> create_collider(res1, sampler),
                     collider2 |-> create_collider(res2, sampler)]
    /\ UNCHANGED <<cfg, cfgChanged, sampler, ball, world, loaded, in_progress, pc, cycle,
                   center, eligible, submitted, evicted, finalized, invalidated, changes,
                   global_mat, app>>

NextObserver == ResolveLod

SpecObserver == InitObserver /\ [][NextObserver]_vars

\* C26: the resolution of a chunk is the one selected for the horizontal
\* (x, z) distance from the observer to the chunk centre, so two observers
\* that differ only in height y get the same resolution and the same collider
\* eligibility
C26_HeightIndependent ==
    probe.f = "chosen_res" =>
        /\ probe.res1 = lod_select(HorizontalDistSq(probe.coord, probe.pos1, sampler), sampler)
        /\ probe.res1 = probe.res2
        /\ probe.collider1 = probe.collider2

----------------------------------------------------------------------------
(* Builds that fail: the closure of a build panics on its worker thread.     *)
(* The task pool survives it; the task is left closed without a result.      *)

\* schedule runs explored
FailureCycles == 2

FailureConfig == [DefaultConfig EXCEPT !.view_radius_chunks = 1, !.max_spawn_per_frame = 2]

\* the closure spawned by spawn_chunk_task panics before it returns its result
BuildPanicsOf(e) ==
    /\ pc = "finalize_chunk_tasks"
    /\ e \in Tasks
    /\ ~world[e].done /\ ~world[e].panicked
    /\ world' = [world EXCEPT ![e].panicked = TRUE]
    /\ UNCHANGED <<cfg, cfgChanged, sampler, ball, loaded, in_progress, pc, cycle,
                   center, eligible, submitted, evicted, finalized, invalidated, changes,
                   global_mat, probe, app>>

BuildPanics == \E e \in Tasks : BuildPanicsOf(e)

\* finalize_chunk_tasks where builds may have failed: polling a Task whose
\* future panicked panics in the polling thread (the task is closed without an
\* output), and nothing in the system catches it, so the system and with it
\* the app stop; the registries are as the panic found them
FinalizeChunkTasksWithFailures ==
    IF pc = "finalize_chunk_tasks" /\ \E e \in Tasks : world[e].panicked
    THEN /\ pc' = "panicked"
         /\ UNCHANGED <<cfg, cfgChanged, sampler, ball, world, loaded, in_progress, cycle,
                        center, eligible, submitted, evicted, finalized, invalidated,
                        changes, global_mat, probe, app>>
    ELSE FinalizeChunkTasks

InitFailure == InitWith(FailureConfig, [x |-> 10, y |-> 0, z |-> 10])

NextFailure ==
    \/ UpdateTerrainChunks(FailureCycles)
    \/ BuildCompletes
    \/ BuildPanics
    \/ FinalizeChunkTasksWithFailures
    \/ ApplyTerrainConfigChanges

SpecFailure == InitFailure /\ [][NextFailure]_vars

\* C27: a failed build does not reach the control thread, and once
\* finalize_chunk_tasks has run its coordinate is no longer in InProgress, so
\* that a later cycle submits it again
C27_FailedBuildDropped ==
    /\ pc # "panicked"
    /\ pc = "apply_terrain_config_changes" =>
          \A e \in Tasks : world[e].panicked => world[e].coord \notin in_progress

----------------------------------------------------------------------------
(* The observer chunk by itself.  A position component is a whole number of  *)
(* metres, or ("tiny") a whole number of steps of 2^-149, the spacing of the *)
(* f32 values next to zero.                                                  *)

\* whole positions -ObserverMaxPos..ObserverMaxPos metres on either axis
ObserverMaxPos == 4

\* tiny positions up to ObserverTinySteps f32 values away from zero
ObserverTinySteps == 3

ObserverChunkSizes == {2, 3, DefaultConfig.chunk_size}

\* q_ball.get_single() is an Err: there is no Ball entity
NoObserver == [present |-> FALSE]

\* q_ball.get_single().map(|t| t.translation).unwrap_or(Vec3::ZERO)
center_pos(observer) ==
    IF observer = NoObserver THEN [unit |-> "metre", x |-> 0, y |-> 0, z |-> 0]
    ELSE observer

\* (v / chunk_size).floor() as i32 for one f32 component v.  A quotient of
\* whole metres below 2^24 is rounded to a value with the same floor.  A
\* quotient of a tiny v is rounded to a whole number q of steps of 2^-149:
\* when q is 0 it is 0.0 or -0.0, whose floor casts to 0
floor_div_f32(unit, v, chunk_size) ==
    IF unit = "metre" THEN v \div chunk_size
    ELSE LET q == RoundHalfEven(Abs(v), chunk_size)
         IN  IF v >= 0 \/ q = 0 THEN 0 ELSE -1

\* center_chunk of update_terrain_chunks for an observer that may be absent or
\* next to zero
center_chunk_f32(observer, c) ==
    LET p == center_pos(observer)
    IN  <<floor_div_f32(p.unit, p.x, c.chunk_size), floor_div_f32(p.unit, p.z, c.chunk_size)>>

ObserverPositions ==
    {[unit |-> "metre", x |-> px, y |-> 0, z |-> pz] :
        px \in -ObserverMaxPos..ObserverMaxPos, pz \in -ObserverMaxPos..ObserverMaxPos}
    \cup {[unit |-> "metre", x |-> px, y |-> 0, z |-> 0] :
        px \in {-DefaultConfig.chunk_size - 1, -DefaultConfig.chunk_size,
                DefaultConfig.chunk_size - 1, DefaultConfig.chunk_size}}
    \cup {[unit |-> "tiny", x |-> px, y |-> 0, z |-> pz] :
        px \in -ObserverTinySteps..ObserverTinySteps,
        pz \in -ObserverTinySteps..ObserverTinySteps}

InitObserverChunk ==
    \E cs \in ObserverChunkSizes : \E o \in ObserverPositions \cup {NoObserver} :
        InitProbing([DefaultConfig EXCEPT !.chunk_size = cs], [x |-> 0, y |-> 0, z |-> 0],
                    [f |-> "observer", observer |-> o])

\* update_terrain_chunks evaluates center_chunk
EvaluateCenterChunk ==
    /\ probe.f = "observer"
    /\ probe' = [f |-> "center_chunk", observer |-> probe.observer,
                 chunk |-> center_chunk_f32(probe.observer, sampler)]
    /\ UNCHANGED <<cfg, cfgChanged, sampler, ball, world, loaded, in_progress, pc, cycle,
                   center, eligible, submitted, evicted, finalized, invalidated, changes,
                   global_mat, app>>

NextObserverChunk == EvaluateCenterChunk

SpecObserverChunk == InitObserverChunk /\ [][NextObserverChunk]_vars

\* the floor of v / chunk_size for a real v that is a whole number of metres
\* or a tiny value, which lies strictly between -1 and 1 metre
RealFloor(unit, v, chunk_size) ==
    IF unit = "metre" THEN v \div chunk_size
    ELSE IF v < 0 THEN -1 ELSE 0

\* C28: the observer chunk is the componentwise floor of position / chunk_size:
\* -1 for every x with -chunk_size <= x < 0, 0 for every x with
\* 0 <= x < chunk_size; with no observer it is the chunk of the origin
C28_FloorChunk ==
    probe.f = "center_chunk" =>
        IF probe.observer = NoObserver THEN probe.chunk = <<0, 0>>
        ELSE LET o == probe.observer
             IN  /\ probe.chunk[1] = RealFloor(o.unit, o.x, sampler.chunk_size)
                 /\ probe.chunk[2] = RealFloor(o.unit, o.z, sampler.chunk_size)

----------------------------------------------------------------------------
(* The desired list by itself, for observer chunks on either side of the     *)
(* origin and radii from 0.                                                  *)

\* observer chunks -DesiredMaxCenter..DesiredMaxCenter on either axis
DesiredMaxCenter == 2

\* radii 0..DesiredMaxRadius
DesiredMaxRadius == 3

InitDesired ==
    \E cx \in -DesiredMaxCenter..DesiredMaxCenter :
    \E cz \in -DesiredMaxCenter..DesiredMaxCenter :
    \E r \in 0..DesiredMaxRadius :
        InitProbing([DefaultConfig EXCEPT !.view_radius_chunks = r],
                    [x |-> 0, y |-> 0, z |-> 0],
                    [f |-> "center_chunk_radius", cc |-> <<cx, cz>>, radius |-> r])

\* update_terrain_chunks fills and sorts desired
ComputeDesired ==
    /\ probe.f = "center_chunk_radius"
    /\ probe' = [f |-> "desired", cc |-> probe.cc, radius |-> probe.radius,
                 desired |-> desired_sorted(probe.cc, probe.radius)]
    /\ UNCHANGED <<cfg, cfgChanged, sampler, ball, world, loaded, in_progress, pc, cycle,
                   center, eligible, submitted, evicted, finalized, invalidated, changes,
                   global_mat, app>>

NextDesired == ComputeDesired

SpecDesired == InitDesired /\ [][NextDesired]_vars

\* C29: the desired set of a cycle is exactly the set of coordinates at
\* Chebyshev distance <= R from the observer chunk: (2R+1)^2 distinct
\* elements, none outside the square
C29_DesiredSquare ==
    probe.f = "desired" =>
        LET w == 2 * probe.radius + 1
            square == {<<probe.cc[1] + dx, probe.cc[2] + dz>> :
                          dx \in -probe.radius..probe.radius,
                          dz \in -probe.radius..probe.radius}
        IN  /\ Range(probe.desired) = square
            /\ \A c \in Range(probe.desired) : Chebyshev(c, probe.cc) <= probe.radius
            /\ Len(probe.desired) = w * w
            /\ Cardinality(Range(probe.desired)) = w * w

\* the desired list of a radius of 2 or more around a chunk left of and below
\* the origin
C29_Witness ==
    /\ probe.f = "desired"
    /\ probe.radius >= 2
    /\ probe.cc[1] < 0 /\ probe.cc[2] < 0
    /\ Len(probe.desired) = (2 * probe.radius + 1) * (2 * probe.radius + 1)

----------------------------------------------------------------------------
(* Concurrent builds: a resting observer with view radius 1 and a budget of  *)
(* 4, so that builds of several runs of the schedule are under way at once;  *)
(* they complete one by one in any order, spread over the runs in any way.   *)

\* schedule runs explored
OrderCycles == 2

OrderConfigs ==
    {[DefaultConfig EXCEPT !.view_radius_chunks = 1, !.max_spawn_per_frame = 4,
                           !.amplitude = a] : a \in Amplitudes}

InitOrder == \E c \in OrderConfigs : InitWith(c, [x |-> 10, y |-> 0, z |-> 10])

NextOrder ==
    \/ UpdateTerrainChunks(OrderCycles)
    \/ BuildCompletes
    \/ FinalizeChunkTasks
    \/ ApplyTerrainConfigChanges

SpecOrder == InitOrder /\ [][NextOrder]_vars

\* what a build and its finalization hand on for a coordinate
BuildData(t) ==
    [coord |-> t.coord, res |-> t.res, create_collider |-> t.create_collider,
     amplitude |-> t.amplitude, min_h |-> t.min_h, max_h |-> t.max_h]

\* the same from the inputs of the build alone: coordinate, resolution and the
\* sampler snapshot smp
DataOfInputs(coord, res, smp) ==
    [coord |-> coord, res |-> res, create_collider |-> res # smp.lod_far_resolution,
     amplitude |-> smp.amplitude,
     min_h |-> chunk_height_range(coord, smp).min_h,
     max_h |-> chunk_height_range(coord, smp).max_h]

\* the coordinates submitted in the first n runs for a resting observer: the
\* budget is spent on the desired list from its head, whatever has completed
SubmittedWithin(n) ==
    LET seq == desired_sorted(center_chunk(ball, sampler), sampler.view_radius_chunks)
        k   == Min2(Len(seq), n * sampler.max_spawn_per_frame)
    IN  {seq[i] : i \in 1..k}

\* C30: concurrent builds do not interfere: the data of every build, pending or
\* finalized, is that of its own inputs and never changes, and once every
\* build under way is finalized LoadedChunks holds the same chunks with the
\* same data whatever the order in which the builds completed
C30_BuildsIndependent ==
    /\ [](\A e \in DOMAIN world :
            BuildData(world[e])
                = DataOfInputs(world[e].coord, world[e].res,
                               [sampler EXCEPT !.amplitude = world[e].amplitude]))
    /\ [][\A e \in DOMAIN world \cap DOMAIN world' :
            BuildData(world'[e]) = BuildData(world[e])]_vars
    /\ [](Tasks = {} =>
            /\ DOMAIN loaded = SubmittedWithin(cycle)
            /\ \A c \in DOMAIN loaded :
                  /\ loaded[c] = <<c, 0>>
                  /\ BuildData(world[loaded[c]])
                        = DataOfInputs(c, chosen_res(c, ball, sampler), sampler))

\* every build of two runs is finalized, and the last finalization took builds
\* of both runs, but not all of them
C30_Witness ==
    /\ cycle = 2 /\ Tasks = {}
    /\ DOMAIN loaded = SubmittedWithin(2)
    /\ finalized \cap SubmittedWithin(1) # {}
    /\ finalized \ SubmittedWithin(1) # {}
    /\ finalized # DOMAIN loaded

----------------------------------------------------------------------------
(* Colliders: the concurrent builds of SpecOrder under LOD thresholds that   *)
(* put the three columns of chunks around the observer into the three tiers. *)

ColliderConfig ==
    [DefaultConfig EXCEPT !.view_radius_chunks = 1, !.max_spawn_per_frame = 4,
                          !.lod_mid_distance = 80, !.lod_far_distance = 200]

InitCollider == InitWith(ColliderConfig, [x |-> 10, y |-> 0, z |-> 10])

SpecCollider == InitCollider /\ [][NextOrder]_vars

\* C31: a loaded chunk entity carries a heightfield collider (fixed body,
\* friction) iff its build was submitted as collider-eligible; the collider has
\* rows = cols = res + 1 and cell scale (step, 1, step), step = chunk_size / res;
\* the entity is tagged with the coordinate and resolution of the build
C31_ColliderIffEligible ==
    /\ [](\A c \in DOMAIN loaded :
            LET t == world[loaded[c]]
            IN  /\ t.kind = "TerrainChunk" /\ t.coord = c
                /\ t.collider # NoCollider <=> t.create_collider
                /\ t.collider # NoCollider =>
                      /\ t.collider.shape = "heightfield"
                      /\ t.collider.body = "Fixed" /\ t.collider.friction = 1
                      /\ t.collider.nrows = t.res + 1 /\ t.collider.ncols = t.res + 1
                      /\ t.collider.scale
                            = << [n |-> sampler.chunk_size, d |-> t.res], 1,
                                 [n |-> sampler.chunk_size, d |-> t.res] >>)
    /\ [][\A e \in Tasks : world'[e].kind = "TerrainChunk" =>
            /\ world'[e].coord = world[e].coord /\ world'[e].res = world[e].res
            /\ world'[e].collider # NoCollider <=> world[e].create_collider]_vars

\* chunks with and without a collider are loaded side by side
C31_Witness ==
    /\ \E c \in DOMAIN loaded : world[loaded[c]].collider # NoCollider
    /\ \E c \in DOMAIN loaded :
          world[loaded[c]].collider = NoCollider /\ ~world[loaded[c]].create_collider

----------------------------------------------------------------------------
(* Settling: the schedule runs for ever; the ball moves and the              *)
(* configuration changes only during the first SettleCycles runs, after      *)
(* which the observer rests.  Builds complete in groups as in SpecJump.      *)
(* The Update schedule runs every frame: the step that takes pc from         *)
(* update_terrain_chunks to finalize_chunk_tasks is the run of               *)
(* update_terrain_chunks, which is enabled whenever it is its turn, and the  *)
(* other two systems follow it (weak fairness).  Every build ends after      *)
(* finitely many frames, observable only where finalize_chunk_tasks is about *)
(* to poll (strong fairness for the completion of pending builds; each step  *)
(* completes at least one, and a resting observer submits finitely many).    *)

\* runs of the schedule during which the observer and the configuration move
SettleCycles == 2

UpdateTerrainChunksSettling ==
    /\ update_terrain_chunks
    /\ cycle' = IF cycle < SettleCycles THEN cycle + 1 ELSE cycle

\* the run of update_terrain_chunks as the schedule sees it
UpdateRuns == pc = "update_terrain_chunks" /\ pc' = "finalize_chunk_tasks"

InitSettle ==
    InitWith([DefaultConfig EXCEPT !.view_radius_chunks = 1, !.max_spawn_per_frame = 2],
             [x |-> 10, y |-> 0, z |-> 10])

NextSettle ==
    \/ UpdateTerrainChunksSettling
    \/ BuildsCompleteInHalf
    \/ FinalizeChunkTasks
    \/ ApplyTerrainConfigChanges
    \/ (cycle < SettleCycles /\ MoveBall)
    \/ (cycle < SettleCycles /\ ConfigChange(MaxConfigChanges))

FairSettle ==
    /\ WF_pc(UpdateRuns)
    /\ WF_vars(FinalizeChunkTasks)
    /\ WF_vars(ApplyTerrainConfigChanges)
    /\ SF_vars(BuildsCompleteInHalf)

SpecSettle == InitSettle /\ [][NextSettle]_vars /\ FairSettle

\* C32: once the observer stays in its chunk and the configuration is left
\* alone, with a budget of at least 1 and every build completing, the system
\* reaches and stays in a state where InProgress is empty and LoadedChunks is
\* exactly the desired set around the observer chunk
C32_EventuallySettled ==
    <>[](in_progress = {} /\ DOMAIN loaded = DesiredNow)

\* settled with view radius 1 around the second chunk after the ball has moved
\* and the configuration has changed
C32_Witness ==
    /\ cycle = SettleCycles /\ changes > 0
    /\ sampler.view_radius_chunks = 1
    /\ center_chunk(ball, sampler) # <<0, 0>>
    /\ in_progress = {} /\ Tasks = {}
    /\ DOMAIN loaded = DesiredNow
    /\ Cardinality(DOMAIN loaded) = 9

----------------------------------------------------------------------------
(* Tuning: writes to the TerrainConfig fields apply_terrain_config_changes    *)
(* does not compare, next to the writes of ConfigChange.                      *)

\* the fields of TerrainConfig that the clearing condition leaves out
TuningFields ==
    {"chunk_size", "resolution", "max_spawn_per_frame", "lod_mid_distance",
     "lod_far_distance", "lod_mid_resolution", "lod_far_resolution"}

TuningValues(f) ==
    CASE f = "chunk_size"          -> {80, DefaultConfig.chunk_size}
      [] f = "resolution"          -> {64, DefaultConfig.resolution}
      [] f = "max_spawn_per_frame" -> Budgets
      [] f = "lod_mid_distance"    -> {80, DefaultConfig.lod_mid_distance}
      [] f = "lod_far_distance"    -> {200, DefaultConfig.lod_far_distance}
      [] f = "lod_mid_resolution"  -> {32, DefaultConfig.lod_mid_resolution}
      [] OTHER                     -> {16, DefaultConfig.lod_far_resolution}

\* a system holding ResMut<TerrainConfig> writes one of these fields (the
\* resource and its fields are public; no system of the repository does so yet)
TuningChange(cap) ==
    /\ pc = "apply_terrain_config_changes"
    /\ changes < cap
    /\ changes' = changes + 1
    /\ \E f \in TuningFields : \E v \in TuningValues(f) :
          /\ cfg[f] # v
          /\ cfg' = [cfg EXCEPT ![f] = v]
    /\ cfgChanged' = TRUE
    /\ UNCHANGED <<sampler, ball, world, loaded, in_progress, pc, cycle,
                   center, eligible, submitted, evicted, finalized, invalidated,
                   global_mat, probe, app>>

InitTuning ==
    InitWith([DefaultConfig EXCEPT !.view_radius_chunks = 1, !.max_spawn_per_frame = 2],
             [x |-> 10, y |-> 0, z |-> 10])

NextTuning ==
    \/ UpdateTerrainChunks(MaxCycles)
    \/ BuildsCompleteInHalf
    \/ FinalizeChunkTasks
    \/ ApplyTerrainConfigChanges
    \/ TuningChange(MaxConfigChanges + 1)
    \/ ConfigChange(MaxConfigChanges + 1)

SpecTuning == InitTuning /\ [][NextTuning]_vars

\* C33: a change of TerrainConfig that leaves the five compared fields as the
\* sampler has them invalidates nothing: apply_terrain_config_changes leaves
\* LoadedChunks, InProgress, the entities and the sampler alone; the sampler is
\* replaced only when a compared field differs, and update_terrain_chunks takes
\* chunk size, budget, LOD thresholds and resolutions from the sampler's snapshot
C33_TuningChangeIgnored ==
    /\ [][(/\ pc = "apply_terrain_config_changes" /\ pc' = "update_terrain_chunks"
           /\ cfgChanged
           /\ \A f \in InvalidatingFields : cfg[f] = sampler[f])
          => /\ loaded' = loaded /\ in_progress' = in_progress
             /\ sampler' = sampler /\ world' = world /\ ~invalidated']_vars
    /\ [][sampler' # sampler
          => /\ \E f \in InvalidatingFields : cfg[f] # sampler[f]
             /\ sampler' = cfg]_vars
    /\ [][(pc = "update_terrain_chunks" /\ pc' = "finalize_chunk_tasks")
          => /\ center' = center_chunk(ball, sampler)
             /\ Cardinality(submitted') <= sampler.max_spawn_per_frame
             /\ Cardinality(eligible') >= sampler.max_spawn_per_frame
                    => Cardinality(submitted') = sampler.max_spawn_per_frame
             /\ \A e \in DOMAIN world' \ DOMAIN world :
                   /\ world'[e].res = chosen_res(world'[e].coord, ball, sampler)
                   /\ world'[e].step.n = sampler.chunk_size
                   /\ world'[e].create_collider
                          = (world'[e].res # sampler.lod_far_resolution)]_vars

\* a change of the amplitude replaced the sampler, the budget was lowered in
\* TerrainConfig after chunks were loaded, and the run that follows still
\* submits as many builds as the sampler's snapshot allows
C33_Witness ==
    /\ pc = "finalize_chunk_tasks"
    /\ cfg.max_spawn_per_frame < sampler.max_spawn_per_frame
    /\ sampler.amplitude # DefaultConfig.amplitude
    /\ \A f \in InvalidatingFields : cfg[f] = sampler[f]
    /\ Cardinality(submitted) = sampler.max_spawn_per_frame
    /\ loaded # <<>>

----------------------------------------------------------------------------
(* The eviction pass, seen from what it spares *)

\* C34: the eviction of a run removes only loaded coordinates farther than the
\* view radius (Chebyshev) from the observer chunk: every loaded coordinate in
\* range keeps its entry and its entity, InProgress loses nothing and gains only
\* the submissions of the run, and every pending build task is left as it was
C34_EvictsOnlyOutOfRange ==
    [][(pc = "update_terrain_chunks" /\ pc' = "finalize_chunk_tasks") =>
          /\ \A c \in DOMAIN loaded :
                Chebyshev(c, center') <= sampler.view_radius_chunks
                    => /\ c \in DOMAIN loaded' /\ loaded'[c] = loaded[c]
                       /\ loaded[c] \in DOMAIN world => loaded[c] \in DOMAIN world'
          /\ DOMAIN loaded \ DOMAIN loaded' = evicted'
          /\ \A c \in evicted' : Chebyshev(c, center') > sampler.view_radius_chunks
          /\ in_progress' = in_progress \cup submitted'
          /\ \A e \in Tasks : e \in DOMAIN world' /\ world'[e] = world[e]]_vars

\* a run has evicted a chunk while it spared a loaded chunk in range and a build
\* was pending
C34_Witness ==
    /\ pc = "finalize_chunk_tasks"
    /\ evicted # {}
    /\ \E c \in DOMAIN loaded : c \notin submitted
    /\ \E e \in Tasks : world[e].coord \notin submitted

----------------------------------------------------------------------------
(* Registries and entities *)

\* C35: at the end of every cycle the TerrainChunk entities of the world are
\* exactly the entities LoadedChunks refers to, one per key and tagged with the
\* coordinate of its key, and the coordinates of the ChunkBuildTask entities are
\* exactly InProgress, one task per coordinate: eviction, finalize and
\* invalidation leave no chunk entity or build task without its registry entry
C35_RegistriesMatchWorld ==
    EndOfCycle =>
        /\ Chunks = {loaded[c] : c \in DOMAIN loaded}
        /\ \A c \in DOMAIN loaded :
              /\ world[loaded[c]].coord = c
              /\ \A d \in DOMAIN loaded : loaded[d] = loaded[c] => d = c
        /\ {world[e].coord : e \in Tasks} = in_progress
        /\ \A e, f \in Tasks : world[e].coord = world[f].coord => e = f

\* the cycle that just ended invalidated the terrain while builds were pending,
\* after earlier cycles had loaded chunks
C35_Witness ==
    /\ EndOfCycle /\ cycle >= 2
    /\ invalidated
    /\ Tasks # {} /\ Chunks = {}

----------------------------------------------------------------------------
(* The simulation clock after game over *)

\* C36: while Score.game_over is true a FixedUpdate step leaves SimState.tick
\* and SimState.elapsed_seconds unchanged; the tick grows only in a step taken
\* with game_over false; and the reset that ends the game over sets tick (and
\* elapsed_seconds) to 0
C36_FrozenWhileGameOver ==
    /\ [][(/\ app.built /\ app.score # NoResource /\ app.score.game_over
           /\ app'.fixed_runs = app.fixed_runs + 1)
          => app'.sim = app.sim]_vars
    /\ [][(app.built /\ app'.sim.tick > app.sim.tick)
          => /\ ~(app.score # NoResource /\ app.score.game_over)
             /\ app'.fixed_runs = app.fixed_runs + 1]_vars
    /\ [][(/\ app.built /\ app.score # NoResource /\ app.score.game_over
           /\ ~app'.score.game_over)
          => /\ app'.sim.tick = 0
             /\ app'.sim.elapsed_seconds.m = 0]_vars

\* the game is over with the clock at tick 1 after three fixed steps: steps
\* have run that did not advance the clock, or a reset has set it back
C36_Witness ==
    /\ app.built /\ app.score # NoResource
    /\ app.score.game_over
    /\ app.sim.tick = 1
    /\ app.fixed_runs = 3

----------------------------------------------------------------------------
(* The end of a timed run: an app with CoreSimPlugin, AutoplayPlugin and      *)
(* ScreenshotPlugin.  A frame runs FixedUpdate zero or more times, then       *)
(* Update, then renders; the runner leaves its loop after a frame in which    *)
(* AppExit was sent.  A screenshot requested in Update is taken when the      *)
(* frame is rendered and written to its file by a task some time later.       *)
(* app is [sim, run_duration_seconds, enabled, triggered, state, requested,   *)
(* captured, files, exit_sent, exited, phase, fixed_in_frame].                *)

\* fixed steps explored beyond the one that reaches the run duration
ExitExtraTicks == 3

\* run durations of the -runtime flag, in whole seconds
ExitDurations == {1}

\* ScreenshotState::default()
DefaultScreenshotState ==
    [first_requested |-> FALSE, first_saved |-> FALSE,
     last_requested |-> FALSE, last_saved |-> FALSE]

\* an f32 at least a whole number d
f32_ge(v, d) == v.m \div 2^(v.e) >= d

\* tick_state with no game over
tick_state_running(a) == [a EXCEPT !.sim = advance_fixed(@)]

\* target_ticks = (cfg.run_duration_seconds * 60.0) as u64
target_ticks(a) == a.run_duration_seconds * 60

\* autoplay.rs exit_on_duration
exit_on_duration(a) ==
    IF a.sim.tick < target_ticks(a) THEN a
    ELSE IF a.enabled /\ ~a.state.last_saved THEN a
    ELSE [a EXCEPT !.exit_sent = TRUE]

\* core_sim.rs exit_after_runtime
exit_after_runtime(a) ==
    IF a.triggered THEN a
    ELSE IF f32_ge(a.sim.elapsed_seconds, a.run_duration_seconds)
         THEN [a EXCEPT !.triggered = TRUE, !.exit_sent = TRUE]
         ELSE a

\* screenshot.rs capture_screenshot, the primary window present
capture_screenshot(a) ==
    IF ~a.enabled THEN a
    ELSE LET a1 == IF a.sim.tick >= 1 /\ ~a.state.first_requested
                   THEN [a EXCEPT !.requested = @ \cup {"first_frame"},
                                  !.state.first_requested = TRUE]
                   ELSE a
             a2 == IF a1.state.first_requested /\ ~a1.state.first_saved
                      /\ "first_frame" \in a1.files
                   THEN [a1 EXCEPT !.state.first_saved = TRUE]
                   ELSE a1
             a3 == IF f32_ge(a2.sim.elapsed_seconds, a2.run_duration_seconds)
                      /\ ~a2.state.last_requested
                   THEN [a2 EXCEPT !.requested = @ \cup {"last_frame"},
                                   !.state.last_requested = TRUE]
                   ELSE a2
         IN  IF a3.state.last_requested /\ ~a3.state.last_saved
                /\ "last_frame" \in a3.files
             THEN [a3 EXCEPT !.state.last_saved = TRUE]
             ELSE a3

\* a step of the app that leaves the terrain alone
AppStep(a) ==
    /\ app' = a
    /\ UNCHANGED <<cfg, cfgChanged, sampler, ball, world, loaded, in_progress, pc, cycle,
                   center, eligible, submitted, evicted, finalized, invalidated, changes,
                   global_mat, probe>>

\* one run of FixedUpdate: tick_state and exit_on_duration are not ordered
FixedUpdateRun ==
    /\ app.phase = "FixedUpdate" /\ ~app.exited
    /\ app.fixed_in_frame < 2
    /\ app.sim.tick < target_ticks(app) + ExitExtraTicks
    /\ \E a \in {exit_on_duration(tick_state_running(app)),
                 tick_state_running(exit_on_duration(app))} :
          AppStep([a EXCEPT !.fixed_in_frame = @ + 1])

\* one run of Update: exit_after_runtime and capture_screenshot are not ordered
UpdateRun ==
    /\ app.phase = "FixedUpdate" /\ ~app.exited
    /\ \E a \in {capture_screenshot(exit_after_runtime(app)),
                 exit_after_runtime(capture_screenshot(app))} :
          AppStep([a EXCEPT !.phase = "Render"])

\* the frame is rendered, the requested screenshots are taken, and the runner
\* looks for AppExit
EndFrame ==
    /\ app.phase = "Render" /\ ~app.exited
    /\ AppStep([app EXCEPT !.captured = @ \cup app.requested, !.requested = {},
                           !.exited = app.exit_sent,
                           !.phase = "FixedUpdate", !.fixed_in_frame = 0])

\* the task that saves a taken screenshot writes its file
ScreenshotWritten ==
    /\ ~app.exited
    /\ \E k \in app.captured :
          AppStep([app EXCEPT !.captured = @ \ {k}, !.files = @ \cup {k}])

\* after the Startup schedule: cleanup_previous_screenshots has removed the files
InitExit ==
    \E d \in ExitDurations : \E enabled \in BOOLEAN :
        InitResources(DefaultConfig, [x |-> 0, y |-> 0, z |-> 0], NoProbe,
                      [sim |-> DefaultSimState, run_duration_seconds |-> d,
                       enabled |-> enabled, triggered |-> FALSE,
                       state |-> DefaultScreenshotState,
                       requested |-> {}, captured |-> {}, files |-> {},
                       exit_sent |-> FALSE, exited |-> FALSE,
                       phase |-> "FixedUpdate", fixed_in_frame |-> 0])

NextExit ==
    \/ FixedUpdateRun
    \/ UpdateRun
    \/ EndFrame
    \/ ScreenshotWritten

SpecExit == InitExit /\ [][NextExit]_vars

\* C37: with screenshots enabled, AppExit is never sent before the last-frame
\* screenshot has been saved (ScreenshotState.last_saved is true)
C37_ExitAfterLastSaved ==
    (app.enabled /\ app.exit_sent) => app.state.last_saved

----------------------------------------------------------------------------
(* The body of a build: the grids and the index buffer of one chunk.  The     *)
(* chunk size is a multiple of every resolution tried, so step = size / res   *)
(* and the positions i * step are whole numbers, exact in f32.  A height is   *)
(* the numerator of the sampler's fraction: its denominator is the same for   *)
(* every sample of one heightmap, and a sample beyond the extent is 0.        *)

\* the greatest resolution built
MeshMaxRes == 3

RECURSIVE Concat(_)
\* the Vec that results from pushing the elements of the sequences in turn
Concat(seqs) == IF seqs = <<>> THEN <<>> ELSE Head(seqs) \o Concat(Tail(seqs))

vertex_index_transposed(i, j, res) == i * (res + 1) + j

\* idx = (j * (res + 1) + i) as usize
vertex_index(i, j, res) == j * (res + 1) + i

\* the first pair of loops: heights.push(sampler.height(world_x, world_z))
grid_heights(coord, c, hm, res) ==
    LET size     == c.chunk_size
        origin_x == coord[1] * size
        origin_z == coord[2] * size
    IN  Concat([j1 \in 1..(res + 1) |->
                  [i1 \in 1..(res + 1) |->
                      height(origin_x + ((i1 - 1) * size) \div res,
                             origin_z + ((j1 - 1) * size) \div res, c, hm).n]])

RECURSIVE fold_min_max(_, _, _)
\* heights.iter().fold(acc, |(mn, mx), &h| (mn.min(h), mx.max(h))) from the k-th on
fold_min_max(heights, k, acc) ==
    IF k > Len(heights) THEN acc
    ELSE fold_min_max(heights, k + 1,
                      [mn |-> Min2(acc.mn, heights[k]), mx |-> Max2(acc.mx, heights[k])])

\* the second pair of loops: one position, normal and uv per vertex; the normal
\* is kept as the vector (dx, 2 * step, dz) that normalize_or_zero scales
grid_vertices(heights, c, res) ==
    LET size == c.chunk_size
        at(i, j) == heights[vertex_index(i, j, res) + 1]
    IN  Concat([j1 \in 1..(res + 1) |->
                  [i1 \in 1..(res + 1) |->
                      LET i   == i1 - 1
                          j   == j1 - 1
                          i_l == IF i = 0 THEN i ELSE i - 1
                          i_r == IF i = res THEN i ELSE i + 1
                          j_d == IF j = 0 THEN j ELSE j - 1
                          j_u == IF j = res THEN j ELSE j + 1
                      IN  [position |-> <<(i * size) \div res, at(i, j), (j * size) \div res>>,
                           normal   |-> <<at(i_l, j) - at(i_r, j), 2 * (size \div res),
                                          at(i, j_d) - at(i, j_u)>>,
                           uv       |-> <<[n |-> i, d |-> res], [n |-> j, d |-> res]>>]]])

\* a quad whose second triangle is wound the other way
quad_indices_flipped(i, j, res) ==
    LET row == res + 1
        i0  == j * row + i
    IN  <<i0, i0 + row, i0 + 1, i0 + 1, i0 + row + 1, i0 + row>>

\* [i0, i2, i1, i1, i2, i3] of the quad (i, j)
quad_indices(i, j, res) ==
    LET row == res + 1
        i0  == j * row + i
        i1  == i0 + 1
        i2  == i0 + row
        i3  == i2 + 1
    IN  <<i0, i2, i1, i1, i2, i3>>

\* the third pair of loops: indices.extend_from_slice(..) for every quad
grid_indices(res) ==
    Concat([j1 \in 1..res |->
              Concat([i1 \in 1..res |-> quad_indices(i1 - 1, j1 - 1, res)])])

\* the closure of spawn_chunk_task: the ChunkBuildResult with its mesh
build_chunk(coord, c, hm, res) ==
    LET heights == grid_heights(coord, c, hm, res)
        range   == fold_min_max(heights, 1, [mn |-> f32_MAX, mx |-> f32_MIN])
        verts   == grid_vertices(heights, c, res)
    IN  [coord |-> coord, res |-> res,
         step |-> [n |-> c.chunk_size, d |-> res],
         heights |-> heights,
         min_h |-> range.mn, max_h |-> range.mx,
         positions |-> [k \in DOMAIN verts |-> verts[k].position],
         normals   |-> [k \in DOMAIN verts |-> verts[k].normal],
         uvs       |-> [k \in DOMAIN verts |-> verts[k].uv],
         indices   |-> grid_indices(res)]

MeshConfigs ==
    {[DefaultConfig EXCEPT !.chunk_size = 12, !.heightmap_world_size = 24,
                           !.heightmap_max_height = 10, !.amplitude = a] :
        a \in Amplitudes}

MeshCoords == {<<0, 0>>, <<-1, 0>>, <<1, -1>>, <<0, -2>>}

InitMesh ==
    \E c \in MeshConfigs : \E hm \in Rasters : \E coord \in MeshCoords :
    \E res \in 1..MeshMaxRes :
        InitProbing(c, [x |-> 0, y |-> 0, z |-> 0],
                    [f |-> "build", c |-> c, hm |-> hm, coord |-> coord, res |-> res])

\* the task pool runs the build
RunBuild ==
    /\ probe.f = "build"
    /\ probe' = [f |-> "result", c |-> probe.c, hm |-> probe.hm, coord |-> probe.coord,
                 res |-> probe.res,
                 result |-> build_chunk(probe.coord, probe.c, probe.hm, probe.res)]
    /\ UNCHANGED <<cfg, cfgChanged, sampler, ball, world, loaded, in_progress, pc, cycle,
                   center, eligible, submitted, evicted, finalized, invalidated, changes,
                   global_mat, app>>

NextMesh == RunBuild

SpecMesh == InitMesh /\ [][NextMesh]_vars

\* the height the sampler gives for vertex (i, j) of the build in probe
VertexHeight(i, j) ==
    height(probe.coord[1] * probe.c.chunk_size + (i * probe.c.chunk_size) \div probe.res,
           probe.coord[2] * probe.c.chunk_size + (j * probe.c.chunk_size) \div probe.res,
           probe.c, probe.hm).n

\* C38: a build of resolution res >= 1 emits exactly (res+1)^2 heights,
\* positions, normals and uvs in row-major order: vertex (i, j) is at index
\* j*(res+1)+i, with the sampler's height there, local position
\* (i*step, height, j*step) and uv (i/res, j/res); min_h and max_h are the least
\* and the greatest value of the height grid
C38_GridRowMajor ==
    probe.f = "result" =>
        LET r   == probe.result
            res == probe.res
            n   == (res + 1) * (res + 1)
        IN  /\ Len(r.heights) = n /\ Len(r.positions) = n
            /\ Len(r.normals) = n /\ Len(r.uvs) = n
            /\ \A i \in 0..res : \A j \in 0..res :
                  LET k == j * (res + 1) + i + 1
                  IN  /\ r.heights[k] = VertexHeight(i, j)
                      /\ r.positions[k][1] * r.step.d = i * r.step.n
                      /\ r.positions[k][2] = r.heights[k]
                      /\ r.positions[k][3] * r.step.d = j * r.step.n
                      /\ r.uvs[k] = <<[n |-> i, d |-> res], [n |-> j, d |-> res]>>
            /\ \E k \in 1..n : r.heights[k] = r.min_h
            /\ \E k \in 1..n : r.heights[k] = r.max_h
            /\ \A k \in 1..n : r.min_h <= r.heights[k] /\ r.heights[k] <= r.max_h

\* a build of resolution 3 over a chunk whose heights differ between (i, j) and
\* (j, i) and between the least and the greatest
C38_Witness ==
    /\ probe.f = "result" /\ probe.res = 3
    /\ probe.result.min_h < probe.result.max_h
    /\ \E i, j \in 0..3 : VertexHeight(i, j) # VertexHeight(j, i)

\* C39: for res >= 1 the index buffer has exactly 6*res^2 entries, each less
\* than (res+1)^2, and the quad (i, j) contributes, at its place in row-major
\* order of the quads, the triangles (i0, i2, i1) and (i1, i2, i3) with
\* i0 = j*(res+1)+i, i1 = i0+1, i2 = i0+res+1, i3 = i2+1
C39_IndexBuffer ==
    probe.f = "result" =>
        LET ix  == probe.result.indices
            res == probe.res
        IN  /\ Len(ix) = 6 * res * res
            /\ \A k \in 1..Len(ix) : 0 <= ix[k] /\ ix[k] < (res + 1) * (res + 1)
            /\ \A i \in 0..(res - 1) : \A j \in 0..(res - 1) :
                  LET q  == 6 * (j * res + i)
                      i0 == j * (res + 1) + i
                      i1 == i0 + 1
                      i2 == i0 + res + 1
                      i3 == i2 + 1
                  IN  /\ <<ix[q + 1], ix[q + 2], ix[q + 3]>> = <<i0, i2, i1>>
                      /\ <<ix[q + 4], ix[q + 5], ix[q + 6]>> = <<i1, i2, i3>>

\* the index buffer of a build of resolution 3: 54 entries, the last triangle
\* ending at the last vertex
C39_Witness ==
    /\ probe.f = "result" /\ probe.res = 3
    /\ Len(probe.result.indices) = 54
    /\ probe.result.indices[54] = 15

====
